---------------------------- MODULE Spec2Model ----------------------------
(***************************************************************************)
(* A model of the transactional core of SimpleDBPy: the log manager, the   *)
(* buffer pool, the lock table with the per-transaction concurrency        *)
(* manager, the recovery manager and the transaction object.               *)
(*                                                                         *)
(* A handler runs atomically up to the points where the code can block     *)
(* (Condition.wait in LockTable.slock/xlock and in BufferMgr.pin); a       *)
(* blocked call parks the thread in pc[t] and is resumed, or ended by a    *)
(* timeout, by a later step.  The elapsed-time test _waiting_too_long is   *)
(* abstracted to a nondeterministic choice that is only offered while the  *)
(* awaited condition is still false, as in the code's loops.               *)
(***************************************************************************)
EXTENDS Integers, Sequences, FiniteSets, TLC

\* ------------------------------------------------------------------ bounds
MaxTx == 2          \* transaction numbers handed out before the model stops creating
MaxOps == 3         \* get/set/pin/unpin calls one transaction makes
NumBuffs == 1       \* numbuffs given to BufferMgr
NumBlocks == 2      \* blocks of the data file "testfile"
MaxVal == 1         \* integers stored are 0..MaxVal
BlockSize == 160    \* block size given to FileMgr (bounds the records of a log block)
NumLogThreads == 2  \* threads appending to the log on its own
MaxAppends == 4     \* records appended to the log on its own
MaxRecLen == 2      \* bytes of such a record
LogBlockSize == 12  \* block size of the log on its own
NumStatThreads == 2 \* threads calling StatMgr.get_stat_info
ScanBlockSize == 14 \* block size of the table files
MaxFields == 3      \* INTEGER fields of a table's schema
MaxScanBlocks == 2  \* blocks a table file grows to
NumFmThreads == 2   \* threads calling FileMgr
FileBlockSize == 2  \* block size of the file of those threads
MaxFileBlocks == 3  \* blocks that file grows to
PageBlockSize == 10 \* block size of the pages on their own
MaxSets == 2        \* set_int and set_string calls on such a page
CatBlockSize == 400 \* block size of the catalog files
MaxTerms == 2        \* terms of a predicate
UndoBlockSize == 12  \* bytes of the block one transaction writes and rolls back
MaxUndoSets == 3     \* logged set_int and set_string calls of that transaction
MaxListOps == 4      \* pin and unpin calls of a transaction that only pins and unpins
PoolBuffs == 2      \* buffers of the pool that is pinned and unpinned on its own

\* ------------------------------------------------------- program constants
FileNameLen == 8    \* len("testfile")
IntOff == 80        \* the integer location of the tests
StrOff == 40        \* the string location of the tests

Txns == 1..MaxTx
Blocks == 1..NumBlocks
Buffs == 1..NumBuffs
Offsets == {StrOff, IntOff}
IntVals == 0..MaxVal
StrVals == {"", "a"}
NoBlock == 0        \* Buffer._blk is None
NoBuff == 0         \* a missing Buffer (None)
StartupTx == 1      \* the number of the first transaction of a process
RefreshAfter == 100 \* get_stat_info refreshes when _numcalls is above this
MAX_NAME == 16      \* TableMgr.MAX_NAME
EndOfFile == -1     \* Transaction.END_OF_FILE, the block number of the dummy block

\* The blocks the lock table has entries for.
LockBlocks == Blocks \cup {EndOfFile}

ValsAt(off) == IF off = IntOff THEN IntVals ELSE StrVals

VARIABLES
    bufferpool,     \* BufferMgr._bufferpool: Buffs -> [blk, contents, pins, txnum, lsn]
    numAvailable,   \* BufferMgr._num_available
    disk,           \* the data file: Blocks -> (Offsets -> value)
    logrecs,        \* the log, oldest first: records on disk and in the log page
    logSaved,       \* how many records of logrecs are on disk
    boundary,       \* bytes [0..4) of the log page
    diskBoundary,   \* bytes [0..4) of the last log block on disk
    latestLsn,      \* LogMgr._latest_lsn
    lastSavedLsn,   \* LogMgr._last_saved_lsn
    locks,          \* LockTable._locks: Blocks -> Int, 0 when the block is absent
    cmLocks,        \* ConcurrencyMgr._locks of each transaction: "N" (absent), "S", "X"
    blPins,         \* BufferList._pins of each transaction, as a count per block
    blBuffers,      \* BufferList._buffers of each transaction: Blocks -> buffer or NoBuff
    nextTxNum,      \* Transaction._next_tx_num
    txState,        \* "none", "active", "committed", "rolledback"
    pc,             \* where each transaction's thread is: "idle", "slock", "xlock", "pin"
    pend,           \* the call a parked thread is inside
    nops,           \* calls made by each transaction
    fileLength,     \* FileMgr.length of the data file, in blocks
    sys,            \* "up", "restarted" (a new process on the directory), "recovered",
                    \* "recoveredTwice"
    \* ---- history variables (not program state)
    pageWrites,     \* the data page writes of the last step: the block, the buffer's lsn,
                    \* last_saved_lsn before Buffer.flush and at the page write
    flushAlls,      \* the flush_all calls of the last step: the transaction number, the
                    \* blocks of the buffers it had modified and not written since,
                    \* and the blocks flush_all wrote
    unwritten,      \* blocks whose latest page mutation has not been written to disk
    preimg,         \* per transaction: location -> value before its first logged write (partial)
    wrote,          \* per transaction: locations it set (logged or not)
    readers,        \* per block: transactions that read it and have not rolled back
    writers,        \* per block: transactions that wrote it and have not rolled back
    prec,           \* conflict edges <<u, t>>: u's access came before t's conflicting one
    lastCommit,     \* what held when this step's COMMIT record was appended
    crashed,        \* at the crash: preimg of the transactions then active, and the disk
    notified,       \* threads waiting in BufferMgr.pin that a notify_all of unpin has woken
    pinEvent,       \* how the pin that ended its wait in this step ended
    unpinErrors,    \* the unpin calls of the last step that raised RuntimeError
    sizes           \* per transaction: what its last size() returned, its own appends
                    \* since, and how many size() calls have returned

\* The log manager on the bytes of its file, for the runs that use it alone.
VARIABLES
    lm,             \* LogMgr: the blocks of the log file, _logpage, _currentblk (its
                    \* block number), _latest_lsn, _last_saved_lsn
    lmLock,         \* LogMgr._lock: the thread inside append and its argument
    logIter,        \* the LogIterator: _blk (its block number), _p, _currentpos, _boundary
    \* ---- history variables (not program state)
    returned,       \* the appends in the order of their return: lsn, record, thread
    yielded,        \* the records the iterator has returned, and how many appends had
                    \* returned when iter(lm) was called
    flushEvent      \* the flush(lsn) call of the last step: lsn and the LogMgr before it

txVars == <<bufferpool, numAvailable, disk, logrecs, logSaved, boundary, diskBoundary,
            latestLsn, lastSavedLsn, locks, cmLocks, blPins, blBuffers, nextTxNum,
            txState, pc, pend, nops, sys, pageWrites, flushAlls, unwritten, preimg, wrote,
            readers, writers, prec, lastCommit, crashed, notified, pinEvent,
            unpinErrors, fileLength, sizes>>

\* The statistics manager.
VARIABLES
    stat,           \* StatMgr: _tablestats, _numcalls, the thread holding _lock (0: none),
                    \* whether __init__ has returned; and the tables of the catalog
    statPc,         \* where each thread is in get_stat_info or __init__, and its tblname
    statResult      \* the table whose StatInfo the thread's last call returned

logVars == <<lm, lmLock, logIter, returned, yielded, flushEvent>>

statVars == <<stat, statPc, statResult>>

\* Scans.
VARIABLES
    scan,           \* a TableScan and its table file
    scanPc,         \* "insert" while insert() is in its loop, else "idle"
    scanH,          \* history of the scan: the last operation, the file before the
                    \* insert() under way, the blocks it appended, the slots next()
                    \* returned since before_first(), the slots inserted
    prod            \* a ProductScan, its two TableScans and the pairs it returned

scanVars == <<scan, scanPc, scanH>>

\* The file manager on one file.
VARIABLES
    osFile,         \* the open file of FileMgr._open_files: its bytes and its position
    fmLock,         \* the thread holding FileMgr._lock (0: none)
    fmPc,           \* where each thread is in append, write or length, with its block
                    \* number, and the length of the file when its append began
    fmH             \* history: the block numbers append returned, with the length of
                    \* the file before; whether a write has lengthened the file

fileVars == <<osFile, fmLock, fmPc, fmH>>

\* Pages on their own.
VARIABLES
    pg              \* two pages p1 and p2, a file, the last operation with its
                    \* arguments, and the page last written to each block

pageVars == <<pg>>

\* The table manager.
VARIABLES
    cat             \* the files of tblcat and fldcat, the schemas create_table was
                    \* called with, and the table and result of the last get_layout

catVars == <<cat>>

\* A predicate and its sub-predicates.
VARIABLES
    pr              \* the terms of a Predicate, the two schemas, and the results of
                    \* the last select_sub_pred, join_sub_pred and is_satisfied calls

predVars == <<pr>>

\* The logged writes of one transaction to one block, and their undo.
VARIABLES
    ub              \* the page of the buffer, the page before the first logged write,
                    \* the SETINT and SETSTRING records of the transaction as the log
                    \* holds them (oldest first), and what the writes did

undoVars == <<ub>>

vars == <<txVars, logVars, statVars, scanVars, prod, fileVars, pageVars, catVars, predVars, undoVars>>

\* What a step of the transactions, of the log on its own, of the statistics
\* manager leaves alone.
notTx == <<logVars, statVars, scanVars, prod, fileVars, pageVars, catVars, predVars, undoVars>>
notLog == <<txVars, statVars, scanVars, prod, fileVars, pageVars, catVars, predVars, undoVars>>
notStat == <<txVars, logVars, scanVars, prod, fileVars, pageVars, catVars, predVars, undoVars>>
notScan == <<txVars, logVars, statVars, prod, fileVars, pageVars, catVars, predVars, undoVars>>
notProd == <<txVars, logVars, statVars, scanVars, fileVars, pageVars, catVars, predVars, undoVars>>
notFile == <<txVars, logVars, statVars, scanVars, prod, pageVars, catVars, predVars, undoVars>>
notPage == <<txVars, logVars, statVars, scanVars, prod, fileVars, catVars, predVars, undoVars>>
notCat == <<txVars, logVars, statVars, scanVars, prod, fileVars, pageVars, predVars, undoVars>>
notPred == <<txVars, logVars, statVars, scanVars, prod, fileVars, pageVars, catVars, undoVars>>
notUndo == <<txVars, logVars, statVars, scanVars, prod, fileVars, pageVars, catVars, predVars>>

Locs == Blocks \X Offsets

\* ------------------------------------------------------------- log records
Rec(op, tx, blk, off, val) == [op |-> op, tx |-> tx, blk |-> blk, off |-> off, val |-> val]
StartRec(t) == Rec("START", t, 0, 0, 0)
CommitRec(t) == Rec("COMMIT", t, 0, 0, 0)
RollbackRec(t) == Rec("ROLLBACK", t, 0, 0, 0)
CheckpointRec == Rec("CHECKPOINT", -1, 0, 0, 0)
SetRec(t, blk, off, old) == Rec(IF off = IntOff THEN "SETINT" ELSE "SETSTRING", t, blk, off, old)

MaxLength(strlen) == 4 + strlen * 4

\* The byte length of a record as write_to_log lays it out.
RecLen(rec) ==
    CASE rec.op = "CHECKPOINT" -> 4
      [] rec.op \in {"START", "COMMIT", "ROLLBACK"} -> 8
      [] rec.op = "SETINT" -> 8 + MaxLength(FileNameLen) + 4 + 4 + 4
      [] rec.op = "SETSTRING" -> 8 + MaxLength(FileNameLen) + 4 + 4 + MaxLength(Len(rec.val))


\* A zero-filled page, a Buffer as constructed, and the empty history values.
ZeroPage == [off \in Offsets |-> IF off = IntOff THEN 0 ELSE ""]
NewBuffer == [blk |-> NoBlock, contents |-> ZeroPage, pins |-> 0, txnum |-> -1, lsn |-> -1]
NoCall == [kind |-> "none", blk |-> 0, off |-> 0, val |-> 0, log |-> FALSE]
NoCommit == [tx |-> 0, dirty |-> {}, pinned |-> {}, unflushed |-> {}, lsn |-> 0, saved |-> 0]
EmptyFn == [x \in {} |-> 0]
NoCrash == [pre |-> EmptyFn, disk |-> EmptyFn]
NoSize == [seen |-> -1, own |-> 0, calls |-> 0]
NoPin == [tx |-> 0, blk |-> NoBlock, buff |-> NoBuff, notified |-> FALSE, free |-> FALSE]

\* ------------------------------------------------------------ the machine
\* The state the handlers below read and write, as one record, so that a handler
\* that calls others (flush_all, undo, rollback) is the composition of their effects.
\* Install(m) makes the result m of a handler the next state.
Cur == [pool |-> bufferpool, avail |-> numAvailable, disk |-> disk,
        log |-> logrecs, saved |-> logSaved, bnd |-> boundary, dbnd |-> diskBoundary,
        latest |-> latestLsn, lastSaved |-> lastSavedLsn,
        locks |-> locks, cm |-> cmLocks, blp |-> blPins, blb |-> blBuffers,
        waiting |-> {t \in DOMAIN pc : pc[t] = "pin"}, ntf |-> notified,
        pw |-> {}, fa |-> {}, unw |-> unwritten, ce |-> NoCommit, pe |-> NoPin,
        ue |-> {}, flen |-> fileLength, sz |-> sizes]

Install(m) ==
    \E r \in {m} :
       /\ bufferpool' = r.pool
       /\ numAvailable' = r.avail
       /\ disk' = r.disk
       /\ logrecs' = r.log
       /\ logSaved' = r.saved
       /\ boundary' = r.bnd
       /\ diskBoundary' = r.dbnd
       /\ latestLsn' = r.latest
       /\ lastSavedLsn' = r.lastSaved
       /\ locks' = r.locks
       /\ cmLocks' = r.cm
       /\ blPins' = r.blp
       /\ blBuffers' = r.blb
       /\ pageWrites' = r.pw
       /\ flushAlls' = r.fa
       /\ unwritten' = r.unw
       /\ lastCommit' = r.ce
       /\ notified' = r.ntf
       /\ pinEvent' = r.pe
       /\ unpinErrors' = r.ue
       /\ fileLength' = r.flen
       /\ sizes' = r.sz
       /\ UNCHANGED notTx

\* The value F gives for x, with x evaluated once (a handler reads the machine it is
\* given many times).
Bind(x, F(_)) == CHOOSE r \in {F(v) : v \in {x}} : TRUE

\* ------------------------------------------------------------------ LogMgr
\* LogMgr._flush: write the log page, everything appended so far is on disk.
LogFlushNow(m0) ==
    LET On(m) == [m EXCEPT !.saved = Len(m.log), !.dbnd = m.bnd, !.lastSaved = m.latest]
    IN Bind(m0, On)

\* LogMgr.flush with the comparison the wrong way round.
LogFlushReversed(m0, lsn) ==
    LET On(m) == IF lsn <= m.lastSaved THEN LogFlushNow(m) ELSE m
    IN Bind(m0, On)

\* LogMgr.flush(lsn).
LogFlush(m0, lsn) ==
    LET On(m) == IF lsn >= m.lastSaved THEN LogFlushNow(m) ELSE m
    IN Bind(m0, On)

\* LogMgr._append_new_block: a new block with boundary block_size, written at once.
AppendNewBlock(m) ==
    [m EXCEPT !.bnd = BlockSize, !.dbnd = BlockSize]

\* LogMgr.append(logrec); the lsn returned is the result's latest.
LogAppend(m0, rec) ==
    LET bytesneeded == RecLen(rec) + 4
        Place(m1) == [m1 EXCEPT !.log = Append(@, rec), !.bnd = @ - bytesneeded,
                                !.latest = @ + 1]
        On(m) == Place(IF m.bnd - bytesneeded < 4 THEN AppendNewBlock(LogFlushNow(m)) ELSE m)
    IN Bind(m0, On)

\* ------------------------------------------------------------------ Buffer
\* Buffer.flush of buffer i.
BufferFlush(m0, i) ==
    LET Written(m, m1) ==
            [m1 EXCEPT !.disk[m.pool[i].blk] = m.pool[i].contents,
                       !.pool[i].txnum = @ - 1,
                       !.unw = @ \ {m.pool[i].blk}]
        Noted(m, m1, r) ==
            [r EXCEPT !.pw = @ \cup {[blk |-> m.pool[i].blk, lsn |-> m.pool[i].lsn,
                                      before |-> m.lastSaved, saved |-> m1.lastSaved,
                                      by |-> m.pool[i].txnum, n |-> Cardinality(@),
                                      left |-> r.pool[i].txnum]}]
        Write(m, m1) == LET N(r) == Noted(m, m1, r) IN Bind(Written(m, m1), N)
        Flushed(m) == LET W(m1) == Write(m, m1) IN Bind(LogFlush(m, m.pool[i].lsn), W)
        On(m) == IF m.pool[i].txnum >= 0 /\ m.pool[i].blk # NoBlock THEN Flushed(m) ELSE m
    IN Bind(m0, On)

\* An assign_to_block that does not flush the buffer first.
AssignNoFlush(m0, i, blk) ==
    LET On(m1) == [m1 EXCEPT !.pool[i].blk = blk, !.pool[i].contents = m1.disk[blk],
                             !.pool[i].pins = 0]
    IN Bind(m0, On)

\* Buffer.assign_to_block(blk) of buffer i.
AssignToBlock(m0, i, blk) ==
    LET On(m1) == [m1 EXCEPT !.pool[i].blk = blk, !.pool[i].contents = m1.disk[blk],
                             !.pool[i].pins = 0]
    IN Bind(BufferFlush(m0, i), On)

\* Buffer.set_modified(txnum, lsn) of buffer i.
SetModified(m, i, txnum, lsn) ==
    [m EXCEPT !.pool[i].txnum = txnum,
              !.pool[i].lsn = IF lsn >= 0 THEN lsn ELSE @]

\* --------------------------------------------------------------- BufferMgr
IsPinned(b) == b.pins > 0

\* BufferMgr._find_existing_buffer: the first buffer of the pool holding blk.
FindExistingBuffer(m0, blk) ==
    LET On(m) ==
            LET hit == {i \in DOMAIN m.pool : m.pool[i].blk # NoBlock /\ m.pool[i].blk = blk}
            IN IF hit = {} THEN NoBuff ELSE CHOOSE i \in hit : \A j \in hit : i <= j
    IN Bind(m0, On)

\* _choose_unpinned_buffer that takes only buffers never assigned to a block.
ChooseUnassignedBuffer(m0) ==
    LET On(m) ==
            LET free == {i \in DOMAIN m.pool : ~IsPinned(m.pool[i]) /\ m.pool[i].blk = NoBlock}
            IN IF free = {} THEN NoBuff ELSE CHOOSE i \in free : \A j \in free : i <= j
    IN Bind(m0, On)

\* A _choose_unpinned_buffer that takes the first buffer, pinned or not.
ChooseFirstBuffer(m0) == 1

\* BufferMgr._choose_unpinned_buffer: the first unpinned buffer of the pool.
ChooseUnpinnedBuffer(m0) ==
    LET On(m) ==
            LET free == {i \in DOMAIN m.pool : ~IsPinned(m.pool[i])}
            IN IF free = {} THEN NoBuff ELSE CHOOSE i \in free : \A j \in free : i <= j
    IN Bind(m0, On)

\* The buffer BufferMgr._try_to_pin(blk) would return (NoBuff for None).
TryToPinBuff(m0, blk) ==
    LET Other(m, found) == IF found # NoBuff THEN found ELSE ChooseUnpinnedBuffer(m)
        On(m) == LET F(found) == Other(m, found) IN Bind(FindExistingBuffer(m, blk), F)
    IN Bind(m0, On)

\* A _try_to_pin that takes one from _num_available for every pin, also of a buffer
\* that is pinned already.
TryToPinCounting(m0, blk) ==
    LET PinIt(m1, i) == [m1 EXCEPT !.avail = @ - 1, !.pool[i].pins = @ + 1]
        With(m, i) ==
            LET P(m1) == PinIt(m1, i)
            IN Bind(IF FindExistingBuffer(m, blk) = NoBuff THEN AssignToBlock(m, i, blk) ELSE m,
                    P)
        On(m) == LET W(i) == With(m, i) IN Bind(TryToPinBuff(m, blk), W)
    IN Bind(m0, On)

\* BufferMgr._try_to_pin(blk), when it returns a buffer.
TryToPin(m0, blk) ==
    LET PinIt(m1, i) ==
            [m1 EXCEPT !.avail = IF ~IsPinned(m1.pool[i]) THEN @ - 1 ELSE @,
                       !.pool[i].pins = @ + 1]
        With(m, i) ==
            LET P(m1) == PinIt(m1, i)
            IN Bind(IF FindExistingBuffer(m, blk) = NoBuff THEN AssignToBlock(m, i, blk) ELSE m,
                    P)
        On(m) == LET W(i) == With(m, i) IN Bind(TryToPinBuff(m, blk), W)
    IN Bind(m0, On)

\* BufferMgr.unpin(buff); notify_all wakes the threads waiting in pin.
BmUnpin(m0, i) ==
    LET On(m) ==
            IF m.pool[i].pins - 1 > 0
            THEN [m EXCEPT !.pool[i].pins = @ - 1]
            ELSE [m EXCEPT !.pool[i].pins = @ - 1, !.avail = @ + 1,
                           !.ntf = @ \cup m.waiting]
    IN Bind(m0, On)

\* BufferMgr.flush_all(txnum): the buffers of the pool in order, from buffer i on.
RECURSIVE FlushFrom(_, _, _)
FlushFrom(m0, txnum, i) ==
    LET On(m) ==
            IF i > Len(m.pool) THEN m
            ELSE FlushFrom(IF m.pool[i].txnum = txnum THEN BufferFlush(m, i) ELSE m,
                           txnum, i + 1)
    IN Bind(m0, On)

\* flush_all that flushes nothing.
FlushNone(m, txnum) == m

\* BufferMgr.flush_all(txnum), and the note of the call.
FlushAll(m0, txnum) ==
    LET Noted(m, r) ==
            [r EXCEPT !.fa = @ \cup
                {[tx |-> txnum,
                  due |-> {m.pool[i].blk : i \in {j \in DOMAIN m.pool :
                              m.pool[j].txnum = txnum /\ m.pool[j].blk \in m.unw}},
                  wrote |-> {w.blk : w \in r.pw \ m.pw}]}]
        On(m) == LET N(r) == Noted(m, r) IN Bind(FlushFrom(m, txnum, 1), N)
    IN Bind(m0, On)

\* --------------------------------------------------------------- LockTable
\* _has_xlock that misses the value -1.
HasXlockOffByOne(val) == val < -1

\* LockTable._has_xlock, on the value _get_lock_val returns.
HasXlock(val) == val < 0

\* _has_other_slocks that lets one other shared lock pass.
HasOtherSLocksOffByOne(val) == val > 2

\* LockTable._has_other_slocks, on the value _get_lock_val returns.
HasOtherSLocks(val) == val > 1

\* LockTable.slock(blk), once the wait loop is left without LockAbortError.
LtSlock(m, blk) == [m EXCEPT !.locks[blk] = @ + 1]

\* LockTable.xlock(blk), once the wait loop is left without LockAbortError.
LtXlock(m, blk) == [m EXCEPT !.locks[blk] = -1]

\* LockTable.unlock(blk); an entry that is deleted reads 0.
LtUnlock(m, blk) == [m EXCEPT !.locks[blk] = IF @ > 1 THEN @ - 1 ELSE 0]

\* ---------------------------------------------------------- ConcurrencyMgr
\* A slock(blk) that asks the lock table also for a block it has in _locks.
CmSlockAgain(m0, t, blk) ==
    LET On(m) == [LtSlock(m, blk) EXCEPT !.cm[t][blk] = IF @ = "N" THEN "S" ELSE @]
    IN Bind(m0, On)

\* ConcurrencyMgr.slock(blk) when LockTable.slock does not have to wait.
CmSlock(m0, t, blk) ==
    LET On(m) == IF m.cm[t][blk] = "N" THEN [LtSlock(m, blk) EXCEPT !.cm[t][blk] = "S"] ELSE m
    IN Bind(m0, On)

\* The second half of ConcurrencyMgr.xlock(blk): LockTable.xlock and the "X" entry.
CmXlockUpgrade(m, t, blk) == [LtXlock(m, blk) EXCEPT !.cm[t][blk] = "X"]

\* ConcurrencyMgr.xlock(blk) when neither lock table call has to wait.
CmXlock(m0, t, blk) ==
    LET On(m) == IF m.cm[t][blk] # "X" THEN CmXlockUpgrade(CmSlock(m, t, blk), t, blk) ELSE m
    IN Bind(m0, On)

\* Whether ConcurrencyMgr.slock(blk) of t would wait in LockTable.slock.
SlockWaits(m0, t, blk) ==
    LET On(m) == m.cm[t][blk] = "N" /\ HasXlock(m.locks[blk])
    IN Bind(m0, On)

\* An xlock that never waits.
XlockNeverWaits(m, blk) == FALSE

\* Whether LockTable.xlock(blk) would wait (t holds "S" by then).
XlockWaits(m, blk) == HasOtherSLocks(m.locks[blk])

\* ConcurrencyMgr.release: unlock every block of _locks, from block b on, then clear.
RECURSIVE ReleaseFrom(_, _, _)
ReleaseFrom(m0, t, b) ==
    LET On(m) ==
            IF b > NumBlocks THEN [m EXCEPT !.cm[t] = [x \in LockBlocks |-> "N"]]
            ELSE ReleaseFrom(IF m.cm[t][b] # "N" THEN LtUnlock(m, b) ELSE m, t, b + 1)
    IN Bind(m0, On)

CmRelease(m0, t) ==
    LET On(m) == ReleaseFrom(IF m.cm[t][EndOfFile] # "N" THEN LtUnlock(m, EndOfFile) ELSE m, t, 1)
    IN Bind(m0, On)

\* -------------------------------------------------------------- BufferList
\* BufferList.pin(blk) when BufferMgr.pin returns a buffer at once.
BlPin(m0, t, blk) ==
    LET On(m) == [TryToPin(m, blk) EXCEPT !.blb[t][blk] = TryToPinBuff(m, blk),
                                           !.blp[t][blk] = @ + 1]
    IN Bind(m0, On)

\* An unpin(blk) that also gives up the lock the transaction has on blk.
BlUnpinReleasing(m0, t, blk) ==
    LET Unlocked(r) == IF r.cm[t][blk] # "N"
                       THEN [LtUnlock(r, blk) EXCEPT !.cm[t][blk] = "N"] ELSE r
        On(m) == Bind([BmUnpin(m, m.blb[t][blk]) EXCEPT
                          !.blp[t][blk] = @ - 1,
                          !.blb[t][blk] = IF m.blp[t][blk] - 1 = 0 THEN NoBuff ELSE @],
                      Unlocked)
    IN Bind(m0, On)

\* An unpin(blk) that takes the block out of _buffers whatever is left in _pins.
BlUnpinDropping(m0, t, blk) ==
    LET On(m) ==
            IF m.blb[t][blk] = NoBuff THEN [m EXCEPT !.ue = @ \cup {[tx |-> t, blk |-> blk]}]
            ELSE [BmUnpin(m, m.blb[t][blk]) EXCEPT
                     !.blp[t][blk] = @ - 1,
                     !.blb[t][blk] = NoBuff]
    IN Bind(m0, On)

\* BufferList.unpin(blk): RuntimeError for a block that is not in _buffers; else the
\* buffer is unpinned, one blk leaves _pins, and the block leaves _buffers with the
\* last of them.
BlUnpin(m0, t, blk) ==
    LET On(m) ==
            IF m.blb[t][blk] = NoBuff THEN [m EXCEPT !.ue = @ \cup {[tx |-> t, blk |-> blk]}]
            ELSE [BmUnpin(m, m.blb[t][blk]) EXCEPT
                     !.blp[t][blk] = @ - 1,
                     !.blb[t][blk] = IF m.blp[t][blk] - 1 = 0 THEN NoBuff ELSE @]
    IN Bind(m0, On)

\* unpin_all that unpins every block of _buffers once, however often it is pinned.
RECURSIVE UnpinEachOnce(_, _, _, _)
UnpinEachOnce(m0, t, b, k) ==
    LET On(m) ==
            IF b > NumBlocks
            THEN [m EXCEPT !.blp[t] = [x \in Blocks |-> 0],
                           !.blb[t] = [x \in Blocks |-> NoBuff]]
            ELSE IF k < m.blp[t][b] THEN UnpinEachOnce(BmUnpin(m, m.blb[t][b]), t, b + 1, 0)
            ELSE UnpinEachOnce(m, t, b + 1, 0)
    IN Bind(m0, On)

\* BufferList.unpin_all: one BufferMgr.unpin for every entry of _pins, then clear both.
RECURSIVE UnpinAllFrom(_, _, _, _)
UnpinAllFrom(m0, t, b, k) ==
    LET On(m) ==
            IF b > NumBlocks
            THEN [m EXCEPT !.blp[t] = [x \in Blocks |-> 0],
                           !.blb[t] = [x \in Blocks |-> NoBuff]]
            ELSE IF k < m.blp[t][b] THEN UnpinAllFrom(BmUnpin(m, m.blb[t][b]), t, b, k + 1)
            ELSE UnpinAllFrom(m, t, b + 1, 0)
    IN Bind(m0, On)

BlUnpinAll(m, t) == UnpinAllFrom(m, t, 1, 0)

\* ------------------------------------------------- Transaction, RecoveryMgr
\* set_int / set_string that write the page first and log what it holds then.
TxWriteThenLog(m0, t, blk, off, val, okToLog) ==
    LET Modify(m1, i) ==
            SetModified([m1 EXCEPT !.pool[i].contents[off] = val, !.unw = @ \cup {blk}],
                        i, t, IF okToLog THEN m1.latest ELSE -1)
        On(m) ==
            LET M(m1) == Modify(m1, m.blb[t][blk])
            IN Bind(IF okToLog THEN LogAppend(m, SetRec(t, blk, off, val)) ELSE m, M)
    IN Bind(m0, On)

\* Transaction.set_int / set_string once the X lock is held: RecoveryMgr.set_int or
\* set_string logs the old value when ok_to_log, then the page is set and the buffer
\* marked.  The buffer is the one BufferList.get_buffer returns.
TxWrite(m0, t, blk, off, val, okToLog) ==
    LET Modify(m1, i) ==
            SetModified([m1 EXCEPT !.pool[i].contents[off] = val, !.unw = @ \cup {blk}],
                        i, t, IF okToLog THEN m1.latest ELSE -1)
        On(m) ==
            LET M(m1) == Modify(m1, m.blb[t][blk])
            IN Bind(IF okToLog
                    THEN LogAppend(m, SetRec(t, blk, off, m.pool[m.blb[t][blk]].contents[off]))
                    ELSE m,
                    M)
    IN Bind(m0, On)

\* Transaction.set_int / set_string, when no lock table call has to wait.
TxSet(m, t, blk, off, val, okToLog) ==
    TxWrite(CmXlock(m, t, blk), t, blk, off, val, okToLog)

\* LogRecord.undo(tx): SetIntRecord and SetStringRecord pin, set without logging and
\* unpin; the other records do nothing.
Undo(m, t, rec) ==
    IF rec.op \in {"SETINT", "SETSTRING"}
    THEN BlUnpin(TxSet(BlPin(m, t, rec.blk), t, rec.blk, rec.off, rec.val, FALSE), t, rec.blk)
    ELSE m

\* _do_rollback that returns after the first record it undoes.
RECURSIVE RollbackNewestOnly(_, _, _)
RollbackNewestOnly(m0, t, k) ==
    LET On(m) ==
            IF k = 0 THEN m
            ELSE IF m.log[k].tx = t
            THEN IF m.log[k].op = "START" THEN m ELSE Undo(m, t, m.log[k])
            ELSE RollbackNewestOnly(m, t, k - 1)
    IN Bind(m0, On)

\* _do_rollback that undoes the set records of every transaction down to the START
\* record of its own.
RECURSIVE RollbackAnyTx(_, _, _)
RollbackAnyTx(m0, t, k) ==
    LET On(m) ==
            IF k = 0 THEN m
            ELSE IF m.log[k].tx = t /\ m.log[k].op = "START" THEN m
            ELSE RollbackAnyTx(Undo(m, t, m.log[k]), t, k - 1)
    IN Bind(m0, On)

\* RecoveryMgr._do_rollback from record k of the log down (the iterator yields the
\* newest record first).
RECURSIVE RollbackFrom(_, _, _)
RollbackFrom(m0, t, k) ==
    LET On(m) ==
            IF k = 0 THEN m
            ELSE IF m.log[k].tx = t
            THEN IF m.log[k].op = "START" THEN m
                 ELSE RollbackFrom(Undo(m, t, m.log[k]), t, k - 1)
            ELSE RollbackFrom(m, t, k - 1)
    IN Bind(m0, On)

\* RecoveryMgr._do_rollback; LogMgr.__iter__ flushes the log first.
DoRollback(m0, t) ==
    LET On(m) == RollbackFrom(m, t, Len(m.log))
    IN Bind(LogFlushNow(m0), On)

\* _do_recover that undoes the records of finished transactions too.
RECURSIVE RecoverUndoAll(_, _, _, _)
RecoverUndoAll(m0, t, k, finished) ==
    LET On(m) ==
            IF k = 0 THEN m
            ELSE IF m.log[k].op = "CHECKPOINT" THEN m
            ELSE RecoverUndoAll(Undo(m, t, m.log[k]), t, k - 1, finished)
    IN Bind(m0, On)

\* RecoveryMgr._do_recover from record k of the log down, with finished_txs.
RECURSIVE RecoverFrom(_, _, _, _)
RecoverFrom(m0, t, k, finished) ==
    LET On(m) ==
            IF k = 0 THEN m
            ELSE IF m.log[k].op = "CHECKPOINT" THEN m
            ELSE IF m.log[k].op \in {"COMMIT", "ROLLBACK"}
            THEN RecoverFrom(m, t, k - 1, finished \cup {m.log[k].tx})
            ELSE IF m.log[k].tx \notin finished
            THEN RecoverFrom(Undo(m, t, m.log[k]), t, k - 1, finished)
            ELSE RecoverFrom(m, t, k - 1, finished)
    IN Bind(m0, On)

\* RecoveryMgr._do_recover.
DoRecover(m0, t) ==
    LET On(m) == RecoverFrom(m, t, Len(m.log), {})
    IN Bind(LogFlushNow(m0), On)

\* The blocks transaction t has set.
WroteBlocks(t) == {loc[1] : loc \in wrote[t]}

\* The COMMIT, ROLLBACK or CHECKPOINT record is appended and the log flushed up to it.
AppendAndFlush(m0, rec) ==
    LET On(m) == LogFlush(m, m.latest)
    IN Bind(LogAppend(m0, rec), On)

\* RecoveryMgr.commit.  lastCommit records the blocks the transaction had modified
\* and not written and those it had pinned when commit was called, the modified
\* blocks still unwritten when the COMMIT record was appended, the record's lsn and
\* last_saved_lsn at the end.
RmCommit(m0, t) ==
    LET Note(m, m1, m3) ==
            [m3 EXCEPT !.ce = [tx |-> t, dirty |-> m.unw \cap WroteBlocks(t),
                               pinned |-> {b \in Blocks : m.blp[t][b] > 0},
                               unflushed |-> m1.unw \cap WroteBlocks(t),
                               lsn |-> m1.latest + 1, saved |-> m3.lastSaved]]
        Flushed(m, m1) == LET N(m3) == Note(m, m1, m3)
                          IN Bind(AppendAndFlush(m1, CommitRec(t)), N)
        On(m) == LET F(m1) == Flushed(m, m1) IN Bind(FlushAll(m, t), F)
    IN Bind(m0, On)

\* RecoveryMgr.rollback.
RmRollback(m, t) == AppendAndFlush(FlushAll(DoRollback(m, t), t), RollbackRec(t))

\* recover that leaves the pages it has restored in their buffers.
RmRecoverNoFlush(m, t) == AppendAndFlush(DoRecover(m, t), CheckpointRec)

\* RecoveryMgr.recover.
RmRecover(m, t) == AppendAndFlush(FlushAll(DoRecover(m, t), t), CheckpointRec)

\* size that reads the length without the lock on the dummy block.
TxSizeNoLock(m, t) == m

\* Transaction.size(filename) when the S lock on the dummy block does not wait; it
\* returns the result's flen.
TxSize(m, t) == CmSlock(m, t, EndOfFile)

\* Transaction.append(filename), once the X lock on the dummy block is held:
\* FileMgr.append adds a block to the file.
TxAppended(m) == [m EXCEPT !.flen = @ + 1]

\* Transaction.append(filename) when neither lock call waits.
TxAppend(m, t) == TxAppended(CmXlock(m, t, EndOfFile))

\* Transaction.commit.
TxCommit(m, t) == BlUnpinAll(CmRelease(RmCommit(m, t), t), t)

\* Transaction.rollback.
TxRollback(m, t) == BlUnpinAll(CmRelease(RmRollback(m, t), t), t)

\* Transaction.recover.
TxRecover(m, t) == RmRecover(FlushAll(m, t), t)

\* The records _do_rollback of t undoes: t's set records after its last START.
RECURSIVE UndoListFrom(_, _, _)
UndoListFrom(log, t, k) ==
    IF k = 0 THEN {}
    ELSE IF log[k].tx = t /\ log[k].op = "START" THEN {}
    ELSE (IF log[k].tx = t /\ log[k].op \in {"SETINT", "SETSTRING"} THEN {log[k].blk} ELSE {})
         \cup UndoListFrom(log, t, k - 1)

\* Whether rollback of t runs through without waiting: every pin of an undo finds a
\* buffer (the block is resident or a buffer is unpinned) and every X lock is held.
RollbackReady(m0, t) ==
    LET On(m) ==
            \A b \in UndoListFrom(m.log, t, Len(m.log)) :
                /\ (FindExistingBuffer(m, b) # NoBuff \/ ChooseUnpinnedBuffer(m) # NoBuff)
                /\ m.cm[t][b] = "X"
    IN Bind(m0, On)

\* ------------------------------------------------------- Page, byte by byte
\* A Page is its bytearray, a sequence of bytes; offset o is element o + 1.
Min(a, b) == IF a < b THEN a ELSE b
Max(a, b) == IF a > b THEN a ELSE b

\* A Python slice bound on a sequence of length n (negative counts from the end).
SliceBound(i, n) == IF i < 0 THEN Max(n + i, 0) ELSE Min(i, n)

\* buf[lo:hi]
GetSlice(buf, lo, hi) ==
    SubSeq(buf, SliceBound(lo, Len(buf)) + 1, SliceBound(hi, Len(buf)))

\* buf[lo:hi] = b
SetSlice(buf, lo, hi, b) ==
    LET l == SliceBound(lo, Len(buf))
        h == Max(SliceBound(hi, Len(buf)), l)
    IN SubSeq(buf, 1, l) \o b \o SubSeq(buf, h + 1, Len(buf))

Pow256(i) == IF i = 0 THEN 1 ELSE IF i = 1 THEN 256 ELSE IF i = 2 THEN 65536 ELSE 16777216

\* Four bytes, most significant first.
PackIntBE(n) == [i \in 1..4 |-> (n \div Pow256(4 - i)) % 256]

\* struct.pack("<i", n) and struct.pack("<I", n): four bytes, least significant first.
PackInt(n) == [i \in 1..4 |-> (n \div Pow256(i - 1)) % 256]

\* struct.unpack("<i", b); fewer than four bytes is struct.error.
UnpackInt(b) ==
    IF Len(b) # 4 THEN "struct.error"
    ELSE b[1] + 256 * b[2] + 65536 * b[3] + 16777216 * (IF b[4] >= 128 THEN b[4] - 256 ELSE b[4])

\* struct.unpack("<I", b), for the values below 2^31 that the model stores.
UnpackUInt(b) ==
    IF Len(b) # 4 THEN "struct.error"
    ELSE b[1] + 256 * b[2] + 65536 * b[3] + 16777216 * b[4]

ZeroBytes(n) == [i \in 1..n |-> 0]

PageGetInt(buf, offset) == UnpackInt(GetSlice(buf, offset, offset + 4))

PageSetInt(buf, offset, n) == SetSlice(buf, offset, offset + 4, PackInt(n))

PageGetBytes(buf, offset) ==
    LET length == UnpackUInt(GetSlice(buf, offset, offset + 4))
    IN GetSlice(buf, offset + 4, offset + 4 + length)

PageSetBytes(buf, offset, b) ==
    SetSlice(SetSlice(buf, offset, offset + 4, PackInt(Len(b))),
             offset + 4, offset + 4 + Len(b), b)

\* A string is the sequence of its code points.  str.encode(): UTF-8, one byte below
\* 128 and two bytes below 2048.
RECURSIVE Encode(_)
Encode(s) ==
    IF s = <<>> THEN <<>>
    ELSE (IF Head(s) < 128 THEN <<Head(s)>>
          ELSE <<192 + (Head(s) \div 64), 128 + (Head(s) % 64)>>) \o Encode(Tail(s))

\* bytes.decode()
RECURSIVE Decode(_)
Decode(b) ==
    IF b = <<>> THEN <<>>
    ELSE IF b[1] < 128 THEN <<b[1]>> \o Decode(Tail(b))
    ELSE IF b[1] >= 192 /\ b[1] < 224 /\ Len(b) >= 2
         THEN <<(b[1] - 192) * 64 + (b[2] - 128)>> \o Decode(Tail(Tail(b)))
    ELSE <<-1>>    \* UnicodeDecodeError

PageGetString(buf, offset) == Decode(PageGetBytes(buf, offset))
PageSetString(buf, offset, s) == PageSetBytes(buf, offset, Encode(s))

\* ------------------------------------------------- FileMgr on one file
\* A file is the sequence of its blocks; block number k is element k + 1.
FmRead(file, blknum, p) == IF blknum < Len(file) THEN file[blknum + 1] ELSE p

FmWrite(file, blknum, p) ==
    IF blknum < Len(file) THEN [file EXCEPT ![blknum + 1] = p] ELSE Append(file, p)

FmAppend(file, blocksize) == Append(file, ZeroBytes(blocksize))

FmLength(file) == Len(file)

\* ----------------------------------------------- LogMgr on the bytes of its file
\* LogMgr._append_new_block: the log page keeps its bytes but for the boundary.
LmAppendNewBlock(l) ==
    LET blk == FmLength(l.file)
        page == PageSetInt(l.logpage, 0, LogBlockSize)
    IN [l EXCEPT !.file = FmWrite(FmAppend(l.file, LogBlockSize), blk, page),
                 !.logpage = page, !.currentblk = blk]

\* LogMgr(fm, logfile) on a file that does not exist yet.
NewLogMgr ==
    LmAppendNewBlock([file |-> <<>>, logpage |-> ZeroBytes(LogBlockSize), currentblk |-> 0,
                      latest_lsn |-> 0, last_saved_lsn |-> 0])

\* LogMgr._flush
LmFlushNow(l) ==
    [l EXCEPT !.file = FmWrite(l.file, l.currentblk, l.logpage),
              !.last_saved_lsn = l.latest_lsn]

\* A flush(lsn) that leaves the log alone when lsn = last_saved_lsn.
LmFlushStrict(l, lsn) == IF lsn > l.last_saved_lsn THEN LmFlushNow(l) ELSE l

\* LogMgr.flush(lsn)
LmFlush(l, lsn) == IF lsn >= l.last_saved_lsn THEN LmFlushNow(l) ELSE l

\* append that starts a new block without writing the page it leaves.
LmAppendNoWrite(l, logrec) ==
    LET bytesneeded == Len(logrec) + 4
        l1 == IF PageGetInt(l.logpage, 0) - bytesneeded < 4
              THEN LmAppendNewBlock(l) ELSE l
        recpos == PageGetInt(l1.logpage, 0) - bytesneeded
    IN [l1 EXCEPT !.logpage = PageSetInt(PageSetBytes(@, recpos, logrec), 0, recpos),
                  !.latest_lsn = @ + 1]

\* append that leaves _latest_lsn as it is when it starts a new block.
LmAppendSkipsLsn(l, logrec) ==
    LET bytesneeded == Len(logrec) + 4
        full == PageGetInt(l.logpage, 0) - bytesneeded < 4
        l1 == IF full THEN LmAppendNewBlock(LmFlushNow(l)) ELSE l
        recpos == PageGetInt(l1.logpage, 0) - bytesneeded
    IN [l1 EXCEPT !.logpage = PageSetInt(PageSetBytes(@, recpos, logrec), 0, recpos),
                  !.latest_lsn = IF full THEN @ ELSE @ + 1]

\* LogMgr.append(logrec), inside `with self._lock`; the lsn returned is latest_lsn.
LmAppend(l, logrec) ==
    LET bytesneeded == Len(logrec) + 4
        l1 == IF PageGetInt(l.logpage, 0) - bytesneeded < 4
              THEN LmAppendNewBlock(LmFlushNow(l)) ELSE l
        recpos == PageGetInt(l1.logpage, 0) - bytesneeded
    IN [l1 EXCEPT !.logpage = PageSetInt(PageSetBytes(@, recpos, logrec), 0, recpos),
                  !.latest_lsn = @ + 1]

\* LogIterator._move_to_block(blk)
MoveToBlock(it, file, blk) ==
    LET p == FmRead(file, blk, it.p)
    IN [it EXCEPT !.blk = blk, !.p = p, !.boundary = PageGetInt(p, 0),
                  !.currentpos = PageGetInt(p, 0)]

\* LogIterator(fm, blk)
NewLogIterator(file, blk) ==
    MoveToBlock([blk |-> blk, p |-> ZeroBytes(LogBlockSize), currentpos |-> 0, boundary |-> 0,
                 state |-> "live"], file, blk)

NoLogIterator ==
    [blk |-> 0, p |-> <<>>, currentpos |-> 0, boundary |-> 0, state |-> "none"]

\* __next__ that stops at the start of the block it was made on.
ItHasNextInBlock(it) == it.currentpos < LogBlockSize

\* LogIterator.__next__ has a record to return.
ItHasNext(it) == it.currentpos < LogBlockSize \/ it.blk > 0

\* The iterator after a __next__ that returns a record, and the record.
ItMoved(it, file) ==
    IF it.currentpos = LogBlockSize THEN MoveToBlock(it, file, it.blk - 1) ELSE it

ItRecord(it, file) == PageGetBytes(ItMoved(it, file).p, ItMoved(it, file).currentpos)

ItNext(it, file) ==
    [ItMoved(it, file) EXCEPT !.currentpos = @ + Len(ItRecord(it, file)) + 4]

\* ------------------------------------------------------- the log on its own
\* LogMgr as TestLog.test uses it, on a new log file: threads append records,
\* flush, and iterate.  An append holds LogMgr._lock from its first statement to its
\* return; flush and __iter__ run between appends.
LogThreads == 1..NumLogThreads

\* The records the threads append: up to MaxRecLen equal bytes.
LogRecs == {[i \in 1..n |-> b] : n \in 0..MaxRecLen, b \in {1, 2}}

NoAppend == [holder |-> 0, rec |-> <<>>]

NoFlush == [lsn |-> -1, before |-> NewLogMgr]

LogStart ==
    /\ lm = NewLogMgr
    /\ flushEvent = NoFlush
    /\ lmLock = NoAppend
    /\ returned = <<>>
    /\ logIter = NoLogIterator
    /\ yielded = [upto |-> 0, recs |-> <<>>]

\* ----------------------------------------------------------------- StatMgr
\* The statistics of a table are stood for by its name; the map _tablestats by the
\* set of tables that have an entry.
StatThreads == 1..NumStatThreads
Tables == {"tblcat", "student"}

NotCalling == [at |-> "out", tbl |-> ""]

\* StatMgr._refresh_statistics once the thread has self._lock: the scan of tblcat
\* gives every table of the catalog an entry, the counter is 0.
RefreshStatistics(s) == [s EXCEPT !.tablestats = s.catalog, !.numcalls = 0]

\* The lines of StatMgr.get_stat_info after the refresh: the entry of the table, or
\* _calc_table_stats and a new entry.
LookUp(s, tblname) == [s EXCEPT !.tablestats = @ \cup {tblname}]

\* StatMgr(tbl_mgr, tx) has been entered by thread 1 and is about to call
\* _refresh_statistics; the catalog has its own table.
StatStart ==
    /\ stat = [catalog |-> {"tblcat"}, tablestats |-> {}, numcalls |-> 0, lock |-> 0,
               built |-> FALSE]
    /\ statPc = [t \in StatThreads |-> IF t = 1 THEN [at |-> "init", tbl |-> ""] ELSE NotCalling]
    /\ statResult = [t \in StatThreads |-> ""]

\* ------------------------------------------------- RecordPage and TableScan
\* A table scan with the file it reads and writes through its transaction:
\*   file   the blocks of the table file, as the transaction's buffers hold them
\*   nf     the four-byte words of a slot after its flag: the INTEGER fields of the
\*          schema (field f is the f-th), or 1 + n words for a VARCHAR(n) field
\*   bs     the block size of the transaction's file manager
\*   blk    the block number of the record page, slot the current slot
\*   found  what the last _search_after returned, ok what the last next() returned
\*   top    the largest slot a RecordPage operation has read or written
\*   err    a read past the end of the page raised struct.error
\*   rp     _rp is a RecordPage (not None)
\*   pins   the block numbers the scan has pinned and not unpinned, in the order of
\*          the pins; peak the largest number of them at one time
\*   raised an unpin of the scan found the block not pinned (RuntimeError)
\*   sets   the set_int and set_string calls of the last RecordPage call: offset,
\*          value and ok_to_log
\*   skip   the words of nf that hold the characters of a VARCHAR field (the word
\*          before them is the length of its string)
EMPTY == 0
USED == 1

\* Layout.from_schema: the flag, then four bytes for every INTEGER field.
SlotSize(m) == 4 + 4 * m.nf
LayoutOffset(f) == 4 + 4 * (f - 1)

\* RecordPage._offset
Offset(m, slot) == slot * SlotSize(m)

\* A valid slot that ends past the block.
IsValidSlotPartial(m, slot) == Offset(m, slot) <= m.bs

\* RecordPage._is_valid_slot
IsValidSlot(m, slot) == Offset(m, slot + 1) <= m.bs

Touch(m, slot) == [m EXCEPT !.top = Max(@, slot)]

\* Transaction.set_int / set_string on the block of the record page: the page is
\* written and the call noted with its ok_to_log.
NoteSet(m, offset, val, okToLog) ==
    [m EXCEPT !.sets = Append(@, [off |-> offset, val |-> val, log |-> okToLog])]

TxSetInt(m, offset, val, okToLog) ==
    [NoteSet(m, offset, val, okToLog) EXCEPT !.file[m.blk + 1] = PageSetInt(@, offset, val)]

TxSetString(m, offset, val, okToLog) ==
    [NoteSet(m, offset, val, okToLog) EXCEPT !.file[m.blk + 1] = PageSetString(@, offset, val)]

\* A call of a RecordPage method begins: no set call of it yet.
Fresh(m) == [m EXCEPT !.sets = <<>>]

\* RecordPage._set_flag
SetFlag(m, slot, flag) == TxSetInt(Touch(m, slot), Offset(m, slot), flag, TRUE)

\* RecordPage.set_int, set_string and RecordPage.delete
RpSetInt(m, slot, f, val) ==
    TxSetInt(Touch(Fresh(m), slot), Offset(m, slot) + LayoutOffset(f), val, TRUE)
RpSetString(m, slot, f, val) ==
    TxSetString(Touch(Fresh(m), slot), Offset(m, slot) + LayoutOffset(f), val, TRUE)
RpDelete(m, slot) == SetFlag(Fresh(m), slot, EMPTY)

\* RecordPage._search_after from slot on (slot is already slot + 1 of the call).
RECURSIVE SearchFrom(_, _, _)
SearchFrom(m, slot, flag) ==
    IF ~IsValidSlot(m, slot) THEN [m EXCEPT !.found = -1]
    ELSE LET t == Touch(m, slot)
             b == GetSlice(m.file[m.blk + 1], Offset(m, slot), Offset(m, slot) + 4)
         IN IF Len(b) # 4 THEN [t EXCEPT !.found = -1, !.err = TRUE]
            ELSE IF UnpackInt(b) = flag THEN [t EXCEPT !.found = slot]
            ELSE SearchFrom(t, slot + 1, flag)

SearchAfter(m, slot, flag) == SearchFrom(Fresh(m), slot + 1, flag)

\* RecordPage.next_after and RecordPage.insert_after
RpNextAfter(m, slot) == SearchAfter(m, slot, USED)

\* An insert_after that takes the slot without logging the flag.
RpInsertAfterUnlogged(m, slot) ==
    LET r == SearchAfter(m, slot, EMPTY)
    IN IF r.found >= 0 THEN TxSetInt(Touch(r, r.found), Offset(r, r.found), USED, FALSE) ELSE r

RpInsertAfter(m, slot) ==
    LET r == SearchAfter(m, slot, EMPTY)
    IN IF r.found >= 0 THEN SetFlag(r, r.found, USED) ELSE r

\* A format that logs what it writes.
RECURSIVE FormatLogged(_, _, _)
FormatLogged(m, slot, f) ==
    IF ~IsValidSlot(m, slot) THEN m
    ELSE IF f > m.nf THEN FormatLogged(m, slot + 1, 0)
    ELSE FormatLogged(
             IF f = 0 THEN TxSetInt(Touch(m, slot), Offset(m, slot), EMPTY, TRUE)
             ELSE IF f \in m.skip THEN m
             ELSE TxSetInt(m, Offset(m, slot) + LayoutOffset(f), 0, TRUE),
             slot, f + 1)

RpFormatLogged(m) == FormatLogged(Fresh(m), 0, 0)

\* RecordPage.format: the flag and every field of every valid slot, not logged.  An
\* INTEGER field gets set_int 0 and a VARCHAR field set_string "", which writes its
\* length word and leaves the words of m.skip, where its characters go.
RECURSIVE FormatFields(_, _, _)
FormatFields(m, slot, f) ==
    IF f > m.nf THEN m
    ELSE FormatFields(IF f \in m.skip THEN m
                      ELSE IF f + 1 \in m.skip
                      THEN TxSetString(m, Offset(m, slot) + LayoutOffset(f), <<>>, FALSE)
                      ELSE TxSetInt(m, Offset(m, slot) + LayoutOffset(f), 0, FALSE),
                      slot, f + 1)

RECURSIVE FormatFrom(_, _)
FormatFrom(m, slot) ==
    IF ~IsValidSlot(m, slot) THEN m
    ELSE FormatFrom(FormatFields(TxSetInt(Touch(m, slot), Offset(m, slot), EMPTY, FALSE),
                                 slot, 1),
                    slot + 1)

RpFormat(m) == FormatFrom(Fresh(m), 0)

\* BufferList.unpin of the scan's transaction: one blknum leaves _pins, RuntimeError
\* when there is none.
ScanUnpin(m, blknum) ==
    IF \E k \in DOMAIN m.pins : m.pins[k] = blknum
    THEN LET k == CHOOSE k \in DOMAIN m.pins :
                     m.pins[k] = blknum /\ \A j \in 1..(k - 1) : m.pins[j] # blknum
         IN [m EXCEPT !.pins = SubSeq(@, 1, k - 1) \o SubSeq(@, k + 1, Len(@))]
    ELSE [m EXCEPT !.raised = TRUE]

\* TableScan.close: the block of _rp is unpinned; _rp stays as it is.
TsClose(m) == IF m.rp THEN ScanUnpin(m, m.blk) ELSE m

\* RecordPage(tx, blk, layout) assigned to _rp: the block is pinned.
NewRecordPage(m, blknum) ==
    [m EXCEPT !.blk = blknum, !.rp = TRUE, !.pins = Append(@, blknum),
              !.peak = Max(@, Len(m.pins) + 1)]

\* A _move_to_block that does not close the record page it leaves.
TsMoveToBlockKeeping(m, blknum) == [NewRecordPage(m, blknum) EXCEPT !.slot = -1]

\* TableScan._move_to_block, _move_to_new_block, _at_last_block, before_first
TsMoveToBlock(m, blknum) == [NewRecordPage(TsClose(m), blknum) EXCEPT !.slot = -1]

TsMoveToNewBlock(m) ==
    LET c == TsClose(m)
    IN [RpFormat(NewRecordPage([c EXCEPT !.file = FmAppend(@, m.bs)], FmLength(m.file)))
           EXCEPT !.slot = -1]

\* TableScan.move_to_rid
TsMoveToRid(m, blknum, slot) == [NewRecordPage(TsClose(m), blknum) EXCEPT !.slot = slot]

TsAtLastBlock(m) == m.blk = FmLength(m.file) - 1

TsBeforeFirst(m) == TsMoveToBlock(m, 0)

\* TableScan(tx, tblname, layout) on a table file, tx.block_size() being bs
OpenTableScan(file, nf, bs) ==
    LET m == [file |-> file, nf |-> nf, bs |-> bs, blk |-> 0, slot |-> -1, found |-> -1,
              ok |-> FALSE, top |-> -1, err |-> FALSE, rp |-> FALSE, pins |-> <<>>,
              peak |-> 0, raised |-> FALSE, sets |-> <<>>, skip |-> {}]
    IN IF FmLength(file) = 0 THEN TsMoveToNewBlock(m) ELSE TsMoveToBlock(m, 0)

NewTableScan(file, nf) == OpenTableScan(file, nf, ScanBlockSize)

\* next_after and the assignment to _currentslot
TsStepNext(m) == LET r == RpNextAfter(m, m.slot) IN [r EXCEPT !.slot = r.found]

\* A next() that stops at the end of its block.
TsNextInBlock(m) == LET r == TsStepNext(m) IN [r EXCEPT !.ok = r.slot >= 0]

\* TableScan.next: the loop ends at the last block of the file.
RECURSIVE TsNextLoop(_)
TsNextLoop(m) ==
    IF m.slot >= 0 THEN [m EXCEPT !.ok = TRUE]
    ELSE IF TsAtLastBlock(m) THEN [m EXCEPT !.ok = FALSE]
    ELSE TsNextLoop(TsStepNext(TsMoveToBlock(m, m.blk + 1)))

TsNext(m) == TsNextLoop(TsStepNext(m))

\* An insert() that always takes slot 0 of the current block.
TsInsertFirst(m) == SetFlag([m EXCEPT !.slot = 0], 0, USED)

\* TableScan.insert: insert_after and the assignment, and one turn of its loop.
TsStepInsert(m) == LET r == RpInsertAfter(m, m.slot) IN [r EXCEPT !.slot = r.found]

TsInsertTurn(m) ==
    TsStepInsert(IF TsAtLastBlock(m) THEN TsMoveToNewBlock(m) ELSE TsMoveToBlock(m, m.blk + 1))

\* TableScan.insert when its loop ends
RECURSIVE TsInsertLoop(_)
TsInsertLoop(m) == IF m.slot >= 0 THEN m ELSE TsInsertLoop(TsInsertTurn(m))

TsInsert(m) == TsInsertLoop(TsStepInsert(m))

\* TableScan.delete and TableScan.set_int on the current slot
TsDelete(m) == RpDelete(m, m.slot)
TsSetInt(m, f, val) == RpSetInt(m, m.slot, f, val)

\* The flag of a slot, and the USED slots of a file in (block number, slot) order.
FlagOf(file, nf, blknum, slot) == PageGetInt(file[blknum + 1], slot * (4 + 4 * nf))

SlotsPerBlock(nf) == ScanBlockSize \div (4 + 4 * nf)

RECURSIVE UsedFrom(_, _, _, _)
UsedFrom(file, nf, blknum, slot) ==
    IF blknum >= Len(file) THEN <<>>
    ELSE IF slot >= SlotsPerBlock(nf) THEN UsedFrom(file, nf, blknum + 1, 0)
    ELSE (IF FlagOf(file, nf, blknum, slot) = USED THEN <<(<<blknum, slot>>)>> ELSE <<>>)
         \o UsedFrom(file, nf, blknum, slot + 1)

UsedSlots(file, nf) == UsedFrom(file, nf, 0, 0)

NoHistory == [op |-> "new", before |-> <<>>, appended |-> 0, iter |-> "clean", seen |-> <<>>,
              inserted |-> <<>>, deleted |-> FALSE, fill |-> 0, filling |-> "yes"]

\* A scan opened on an empty table file, one layout of Layouts.
ScanStart(Layouts) ==
    /\ \E nf \in Layouts : scan = NewTableScan(<<>>, nf)
    /\ scanPc = "idle"
    /\ scanH = NoHistory

\* ------------------------------------------------------------ ProductScan
\* A one-block table of flag-only slots with the given flags.
RECURSIVE WithFlags(_, _, _)
WithFlags(m, flags, slot) ==
    IF slot >= Len(flags) THEN m
    ELSE WithFlags(IF flags[slot + 1] = USED THEN SetFlag(m, slot, USED) ELSE m, flags, slot + 1)

TableOf(flags) == WithFlags(NewTableScan(<<>>, 0), flags, 0).file

TableContents == {TableOf(flags) : flags \in [1..SlotsPerBlock(0) -> {EMPTY, USED}]}

\* ProductScan.__init__, before_first and next on the pair of child scans
NewProductScan(p) == [p EXCEPT !.s1 = TsNext(@)]

PsBeforeFirst(p) == [p EXCEPT !.s1 = TsNext(TsBeforeFirst(@)), !.s2 = TsBeforeFirst(@)]

PsNext(p) ==
    LET a == TsNext(p.s2)
    IN IF a.ok THEN [p EXCEPT !.s2 = a, !.ok = TRUE]
       ELSE LET b == TsNext(TsBeforeFirst(a))
            IN IF b.ok THEN LET c == TsNext(p.s1) IN [p EXCEPT !.s1 = c, !.s2 = b, !.ok = c.ok]
               ELSE [p EXCEPT !.s2 = b, !.ok = FALSE]

EmptyTable == TableOf([k \in 1..SlotsPerBlock(0) |-> EMPTY])

\* The plan has opened a TableScan on each table and is about to build the product.
ProdStart(Contents) ==
    \E f1 \in Contents, f2 \in Contents :
        prod = [s1 |-> NewTableScan(f1, 0), s2 |-> NewTableScan(f2, 0), ok |-> FALSE,
                pc |-> "new", yielded |-> <<>>]

\* ------------------------------------------------- FileMgr on the bytes of a file
\* A BufferedRandom: the bytes of the file and the position of the next read or write.
OsSeek(f, n) == [f EXCEPT !.pos = n]
OsSeekEnd(f) == [f EXCEPT !.pos = Len(f.bytes)]
OsTell(f) == f.pos

\* f.write(b): a write past the end fills the gap with zeros.
OsWrite(f, b) ==
    LET old == IF f.pos > Len(f.bytes) THEN f.bytes \o ZeroBytes(f.pos - Len(f.bytes))
               ELSE f.bytes
    IN [bytes |-> SubSeq(old, 1, f.pos) \o b \o SubSeq(old, f.pos + Len(b) + 1, Len(old)),
        pos |-> f.pos + Len(b)]

\* f.readinto(buf): as many bytes as the buffer holds and the file has; the buffer.
OsReadInto(f, buf) ==
    LET n == Max(Min(Len(buf), Len(f.bytes) - f.pos), 0)
    IN SubSeq(f.bytes, f.pos + 1, f.pos + n) \o SubSeq(buf, n + 1, Len(buf))

\* FileMgr.write and FileMgr.read of one thread on its own: the file, the page.
WriteOn(f, blocksize, blknum, p) == OsWrite(OsSeek(f, blknum * blocksize), p)
ReadOn(f, blocksize, blknum, p) == OsReadInto(OsSeek(f, blknum * blocksize), p)

FmThreads == 1..NumFmThreads
FmIdle == [at |-> "idle", blknum |-> 0, before |-> 0]
PageOf(t) == [i \in 1..FileBlockSize |-> t]

FileStart ==
    /\ osFile = [bytes |-> <<>>, pos |-> 0]
    /\ fmLock = 0
    /\ fmPc = [t \in FmThreads |-> FmIdle]
    /\ fmH = [appended |-> <<>>, holes |-> FALSE, raised |-> FALSE]

\* ------------------------------------------------- strings in pages, one thread

\* The values of the round trips: integers at the ends and inside the 32-bit range,
\* strings of one-byte and two-byte characters.
PageInts == {-2147483647 - 1, -1, 345, 2147483647}
PageStrs == {<<>>, <<97>>, <<233>>, <<233, 97>>}
PageBlocks == 0..1

NoPageOp == [op |-> "none", o |-> 0, v |-> 0, s |-> <<>>, blknum |-> 0]

PageStart ==
    pg = [p1 |-> ZeroBytes(PageBlockSize), p2 |-> ZeroBytes(PageBlockSize),
          f |-> [bytes |-> <<>>, pos |-> 0], last |-> NoPageOp, sets |-> 0,
          wrote |-> [b \in PageBlocks |-> <<>>]]

\* ------------------------------------------------------------- TableMgr
\* Names are strings, sequences of code points.
TblCatName == <<116, 98, 108, 99, 97, 116>>    \* "tblcat"
FldCatName == <<102, 108, 100, 99, 97, 116>>    \* "fldcat"
TblNameFld == <<116, 98, 108, 110, 97, 109, 101>>    \* "tblname"
SlotSizeFld == <<115, 108, 111, 116, 115, 105, 122, 101>>    \* "slotsize"
FldNameFld == <<102, 108, 100, 110, 97, 109, 101>>    \* "fldname"
TypeFld == <<116, 121, 112, 101>>    \* "type"
LengthFld == <<108, 101, 110, 103, 116, 104>>    \* "length"
OffsetFld == <<111, 102, 102, 115, 101, 116>>    \* "offset"
MyTable == <<77, 121, 84, 97, 98, 108, 101>>    \* "MyTable"
OtherTable == <<84, 50>>    \* "T2"
FldA == <<65>>    \* "A"
FldB == <<66>>    \* "B"

\* Types and the fields of a Schema, in the order of add_field
INTEGER == 0
VARCHAR == 1
TypesOf(v) == IF v \in {INTEGER, VARCHAR} THEN v ELSE -1    \* ValueError

IntField(fldname) == [name |-> fldname, type |-> INTEGER, length |-> 0]
StringField(fldname, length) == [name |-> fldname, type |-> VARCHAR, length |-> length]

\* Layout._length_in_bytes, with Page.max_length
LengthInBytes(fld) == IF fld.type = INTEGER THEN 4 ELSE MaxLength(fld.length)

\* Layout.from_schema: pos before the i-th field; the offsets by field name, a later
\* field of the same name replacing an earlier; the slot size.
RECURSIVE PosBefore(_, _)
PosBefore(sch, i) == IF i = 1 THEN 4 ELSE PosBefore(sch, i - 1) + LengthInBytes(sch[i - 1])

LastNamed(sch, fldname) ==
    CHOOSE i \in 1..Len(sch) : /\ sch[i].name = fldname
                               /\ \A j \in (i + 1)..Len(sch) : sch[j].name # fldname

FromSchema(sch) ==
    [schema |-> sch,
     offsets |-> [n \in {sch[i].name : i \in 1..Len(sch)} |-> PosBefore(sch, LastNamed(sch, n))],
     slotsize |-> PosBefore(sch, Len(sch) + 1)]

\* TableMgr.__init__: the layouts of the two catalog tables
TcatLayout == FromSchema(<<StringField(TblNameFld, MAX_NAME), IntField(SlotSizeFld)>>)
FcatLayout == FromSchema(<<StringField(TblNameFld, MAX_NAME), StringField(FldNameFld, MAX_NAME),
                           IntField(TypeFld), IntField(LengthFld), IntField(OffsetFld)>>)

\* TableScan(tx, tblname, layout) on a catalog file
CatScan(file, layout) == OpenTableScan(file, (layout.slotsize - 4) \div 4, CatBlockSize)

\* TableScan.get_int, get_string, set_int, set_string of a field of the layout
FieldPos(m, layout, fldname) == Offset(m, m.slot) + layout.offsets[fldname]
ScGetInt(m, layout, fldname) == PageGetInt(m.file[m.blk + 1], FieldPos(m, layout, fldname))
ScGetString(m, layout, fldname) == PageGetString(m.file[m.blk + 1], FieldPos(m, layout, fldname))
ScSetInt(m, layout, fldname, val) ==
    TxSetInt(Touch(Fresh(m), m.slot), FieldPos(m, layout, fldname), val, TRUE)
ScSetString(m, layout, fldname, s) ==
    TxSetString(Touch(Fresh(m), m.slot), FieldPos(m, layout, fldname), s, TRUE)

\* create_table: the loop over sch.fields() on the scan of fldcat
RECURSIVE AddFields(_, _, _, _, _)
AddFields(fcat, tblname, sch, layout, i) ==
    IF i > Len(sch) THEN fcat
    ELSE LET SetRow(a) ==
                 LET b == ScSetString(a, FcatLayout, TblNameFld, tblname)
                     c == ScSetString(b, FcatLayout, FldNameFld, sch[i].name)
                     d == ScSetInt(c, FcatLayout, TypeFld, sch[i].type)
                     e == ScSetInt(d, FcatLayout, LengthFld, sch[i].length)
                 IN ScSetInt(e, FcatLayout, OffsetFld, layout.offsets[sch[i].name])
             Rest(f) == AddFields(f, tblname, sch, layout, i + 1)
         IN Bind(Bind(Bind(fcat, TsInsert), SetRow), Rest)

\* TableMgr.create_table on the two catalog files
TmCreateTable(c0, tblname, sch) ==
    LET On(c) ==
            LET layout == FromSchema(sch)
                a == TsInsert(CatScan(c.tcat, TcatLayout))
                b == ScSetString(a, TcatLayout, TblNameFld, tblname)
                t == ScSetInt(b, TcatLayout, SlotSizeFld, layout.slotsize)
                f == AddFields(CatScan(c.fcat, FcatLayout), tblname, sch, layout, 1)
            IN [c EXCEPT !.tcat = t.file, !.fcat = f.file]
    IN Bind(c0, On)

\* get_layout: the loop over tblcat, to the first row of the table
RECURSIVE FindSize(_, _)
FindSize(tcat, tblname) ==
    LET t == TsNext(tcat)
    IN IF ~t.ok THEN -1
       ELSE IF ScGetString(t, TcatLayout, TblNameFld) = tblname
            THEN ScGetInt(t, TcatLayout, SlotSizeFld)
       ELSE FindSize(t, tblname)

\* get_layout: the loop over fldcat; sch.add_field and offsets[fldname] = offset
RECURSIVE CollectFields(_, _, _)
CollectFields(fcat, tblname, l) ==
    LET f == TsNext(fcat)
    IN IF ~f.ok THEN l
       ELSE IF ScGetString(f, FcatLayout, TblNameFld) = tblname
            THEN LET fldname == ScGetString(f, FcatLayout, FldNameFld)
                     fld == [name |-> fldname,
                             type |-> TypesOf(ScGetInt(f, FcatLayout, TypeFld)),
                             length |-> ScGetInt(f, FcatLayout, LengthFld)]
                     offset == ScGetInt(f, FcatLayout, OffsetFld)
                 IN CollectFields(f, tblname,
                        [l EXCEPT !.schema = Append(@, fld),
                                  !.offsets = [n \in DOMAIN @ \cup {fldname} |->
                                                  IF n = fldname THEN offset ELSE @[n]]])
       ELSE CollectFields(f, tblname, l)

\* TableMgr.get_layout
TmGetLayout(c, tblname) ==
    CollectFields(CatScan(c.fcat, FcatLayout), tblname,
                  [schema |-> <<>>, offsets |-> [n \in {} |-> 0],
                   slotsize |-> FindSize(CatScan(c.tcat, TcatLayout), tblname)])

\* The rows of a catalog file for a table
RECURSIVE RowsFor(_, _, _)
RowsFor(m, layout, tblname) ==
    LET r == TsNext(m)
    IN IF ~r.ok THEN 0
       ELSE (IF ScGetString(r, layout, TblNameFld) = tblname THEN 1 ELSE 0)
            + RowsFor(r, layout, tblname)

\* The tables and schemas that are created
UserTables == {MyTable, OtherTable}
Schemas == {<<>>, <<IntField(FldA)>>, <<StringField(FldB, 9)>>,
            <<IntField(FldA), StringField(FldB, 9)>>, <<StringField(FldB, 9), IntField(FldA)>>}
NoLayout == [schema |-> <<>>, offsets |-> [n \in {} |-> 0], slotsize |-> 0]

\* A new database, TableMgr(True, tx) about to be built.
CatStart ==
    cat = [tcat |-> <<>>, fcat |-> <<>>, built |-> FALSE,
           created |-> [n \in {} |-> <<>>], asked |-> <<>>, layout |-> NoLayout]

\* ------------------------------------------------------------ Term, Predicate
\* An Optional value is the empty sequence (None) or the sequence of the value.
\* Constant.from_int, Constant.from_string
FromInt(ival) == [ival |-> <<ival>>, sval |-> <<>>]
FromString(sval) == [ival |-> <<>>, sval |-> <<sval>>]

\* Expression.from_constant, Expression.from_field_name
FromConstant(val) == [val |-> <<val>>, fldname |-> <<>>]
FromFieldName(fldname) == [val |-> <<>>, fldname |-> <<fldname>>]

Term(lhs, rhs) == [lhs |-> lhs, rhs |-> rhs]

\* Schema.has_field: fldname in self._fields
HasField(sch, fldname) == \E i \in 1..Len(sch) : sch[i] = fldname

\* Schema.add_all on a new Schema, twice
AddAll(sch1, sch2) == sch1 \o sch2

\* Expression.applies_to
ExprAppliesTo(e, sch) == IF e.val = <<>> THEN HasField(sch, e.fldname[1]) ELSE TRUE

\* A Term.applies_to that looks at the left side only.
TermAppliesToLhs(t, sch) == ExprAppliesTo(t.lhs, sch)

\* Term.applies_to
TermAppliesTo(t, sch) == ExprAppliesTo(t.lhs, sch) /\ ExprAppliesTo(t.rhs, sch)

\* list(filter(f, terms)); None when no term is left, else Predicate(newterms)
SubPred(terms, Keep(_)) ==
    LET newterms == SelectSeq(terms, Keep) IN
    IF Len(newterms) = 0 THEN <<>> ELSE <<newterms>>

\* Predicate.select_sub_pred
SelectSubPred(terms, sch) ==
    LET Keep(t) == TermAppliesTo(t, sch) IN SubPred(terms, Keep)

\* Predicate.join_sub_pred
JoinSubPred(terms, sch1, sch2) ==
    LET newsch == AddAll(sch1, sch2)
        Keep(t) == /\ ~TermAppliesTo(t, sch1)
                   /\ ~TermAppliesTo(t, sch2)
                   /\ TermAppliesTo(t, newsch)
    IN SubPred(terms, Keep)

\* Expression.evaluate on a scan positioned at row (a function of the scan's fields
\* to Constants): the empty sequence when get_val raises for a field the scan
\* has not.
Evaluate(e, row) ==
    IF e.val = <<>>
    THEN (IF e.fldname[1] \in DOMAIN row THEN <<row[e.fldname[1]]>> ELSE <<>>)
    ELSE e.val

\* Term.is_satisfied: "raises", or the equality of the two Constants
TermIsSatisfied(t, row) ==
    LET lhsval == Evaluate(t.lhs, row)
        rhsval == Evaluate(t.rhs, row)
    IN IF lhsval = <<>> \/ rhsval = <<>> THEN "raises"
       ELSE IF rhsval[1] = lhsval[1] THEN "true" ELSE "false"

\* Predicate.is_satisfied: all([...]) of a list that is built first
IsSatisfied(terms, row) ==
    LET res == [i \in 1..Len(terms) |-> TermIsSatisfied(terms[i], row)] IN
    IF \E i \in 1..Len(terms) : res[i] = "raises" THEN "raises"
    ELSE IF \A i \in 1..Len(terms) : res[i] = "true" THEN "true" ELSE "false"

\* The fields, constants, terms, schemas and rows that are tried
FldA1 == <<97, 49>>
FldB1 == <<98, 49>>
FldA2 == <<97, 50>>
FldC == <<99>>
PredFields == {FldA1, FldB1, FldA2, FldC}
PredConstants == {FromInt(1), FromString(<<49>>)}
Expressions == {FromFieldName(f) : f \in PredFields} \cup {FromConstant(c) : c \in PredConstants}
Terms == {Term(l, r) : l \in Expressions, r \in Expressions}
Schemas1 == {<<FldA1>>, <<FldA1, FldB1>>}
Schemas2 == {<<>>, <<FldA2>>}
RowsOf(sch) == [{sch[i] : i \in 1..Len(sch)} -> PredConstants]
NoSplit == [sel1 |-> <<>>, sel2 |-> <<>>, join |-> <<>>]
NoRow == [n \in {} |-> FromInt(1)]
NoSat == [whole |-> "none", sel1 |-> "none", sel2 |-> "none", join |-> "none"]

\* Predicate() and two schemas
PredStart(S1, S2) ==
    pr \in {[terms |-> <<>>, sch1 |-> s1, sch2 |-> s2, op |-> "new",
             split |-> NoSplit, row |-> NoRow, sat |-> NoSat] : s1 \in S1, s2 \in S2}

\* ------------------------------------------------- logged writes and their undo
\* The records of RecoveryMgr.set_int and set_string as bytes, and what rollback
\* does with them, for one transaction on one block of a file.
SETINT == 4
SETSTRING == 5

UndoFile == <<116>>
UndoTx == 1

\* SetIntRecord.write_to_log and SetStringRecord.write_to_log: the bytes appended.
SetIntBytes(txnum, filename, blknum, offset, val) ==
    LET tpos == 4
        fpos == tpos + 4
        bpos == fpos + MaxLength(Len(filename))
        opos == bpos + 4
        vpos == opos + 4
        reclen == vpos + 4
    IN PageSetInt(PageSetInt(PageSetInt(PageSetString(PageSetInt(PageSetInt(
           ZeroBytes(reclen), 0, SETINT), tpos, txnum), fpos, filename), bpos, blknum),
           opos, offset), vpos, val)

SetStringBytes(txnum, filename, blknum, offset, val) ==
    LET tpos == 4
        fpos == tpos + 4
        bpos == fpos + MaxLength(Len(filename))
        opos == bpos + 4
        vpos == opos + 4
        reclen == vpos + MaxLength(Len(val))
    IN PageSetString(PageSetInt(PageSetInt(PageSetString(PageSetInt(PageSetInt(
           ZeroBytes(reclen), 0, SETSTRING), tpos, txnum), fpos, filename), bpos, blknum),
           opos, offset), vpos, val)

\* SetIntRecord(p) and SetStringRecord(p): the fields read back from the bytes.
SetRecord(p) ==
    LET tpos == 4
        fpos == tpos + 4
        filename == PageGetString(p, fpos)
        bpos == fpos + MaxLength(Len(filename))
        opos == bpos + 4
        vpos == opos + 4
    IN [op |-> PageGetInt(p, 0), txnum |-> PageGetInt(p, tpos), filename |-> filename,
        blknum |-> PageGetInt(p, bpos), offset |-> PageGetInt(p, opos),
        val |-> IF PageGetInt(p, 0) = SETINT THEN PageGetInt(p, vpos)
                ELSE PageGetString(p, vpos)]

\* SetIntRecord.undo and SetStringRecord.undo: the unlogged set of the old value.
UndoRecord(page, rec) ==
    IF rec.op = SETINT THEN PageSetInt(page, rec.offset, rec.val)
    ELSE PageSetString(page, rec.offset, rec.val)

\* A rollback that undoes the records oldest first.
RECURSIVE UndoOldestFirst(_, _)
UndoOldestFirst(page, log) ==
    IF log = <<>> THEN page
    ELSE UndoOldestFirst(UndoRecord(page, SetRecord(Head(log))), Tail(log))

\* RecoveryMgr._do_rollback: the records of the transaction, newest first.
RECURSIVE DoRollbackBytes(_, _)
DoRollbackBytes(page, log) ==
    IF log = <<>> THEN page
    ELSE DoRollbackBytes(UndoRecord(page, SetRecord(log[Len(log)])), SubSeq(log, 1, Len(log) - 1))

UndoOffsets == {0, 4}
UndoInts == {0, 2, 7}
UndoStrs == {<<>>, <<97>>, <<98, 99>>, <<233>>}

\* The pages a transaction finds: zeros, a string, a longer string overwritten by a
\* shorter one.
UndoPages ==
    {ZeroBytes(UndoBlockSize), PageSetString(ZeroBytes(UndoBlockSize), 0, <<98, 99>>),
     PageSetString(PageSetString(ZeroBytes(UndoBlockSize), 0, <<98, 99, 100>>), 0, <<97>>)}

\* A transaction that has pinned the block and written nothing yet.
UndoStart(Pages) ==
    ub \in {[page |-> p, pre |-> p, log |-> <<>>, st |-> "active", grew |-> FALSE,
             cut |-> FALSE, last |-> "none"] : p \in Pages}

\* ------------------------------------------------------------------- state

\* The value at a location as a transaction that pins the block reads it.
LocVal(m, loc) ==
    LET i == FindExistingBuffer(m, loc[1]) IN
    IF i # NoBuff THEN m.pool[i].contents[loc[2]] ELSE m.disk[loc[1]][loc[2]]

\* A new FileMgr directory with the data file zero-filled, LogMgr on an empty log
\* file, BufferMgr(fm, lm, numbuffs), the class-level LockTable and transaction
\* counter; txs are the transaction numbers the run can hand out.
InitWith(txs, numbuffs) ==
    /\ bufferpool = [i \in 1..numbuffs |-> NewBuffer]
    /\ numAvailable = numbuffs
    /\ disk = [b \in Blocks |-> ZeroPage]
    /\ logrecs = <<>>
    /\ logSaved = 0
    /\ boundary = BlockSize
    /\ diskBoundary = BlockSize
    /\ latestLsn = 0
    /\ lastSavedLsn = 0
    /\ locks = [b \in LockBlocks |-> 0]
    /\ cmLocks = [t \in txs |-> [b \in LockBlocks |-> "N"]]
    /\ blPins = [t \in txs |-> [b \in Blocks |-> 0]]
    /\ blBuffers = [t \in txs |-> [b \in Blocks |-> NoBuff]]
    /\ nextTxNum = 0
    /\ txState = [t \in txs |-> "none"]
    /\ pc = [t \in txs |-> "idle"]
    /\ pend = [t \in txs |-> NoCall]
    /\ nops = [t \in txs |-> 0]
    /\ sys = "up"
    /\ pageWrites = {}
    /\ flushAlls = {}
    /\ unwritten = {}
    /\ preimg = [t \in txs |-> EmptyFn]
    /\ wrote = [t \in txs |-> {}]
    /\ readers = [b \in Blocks |-> {}]
    /\ writers = [b \in Blocks |-> {}]
    /\ prec = {}
    /\ lastCommit = NoCommit
    /\ crashed = NoCrash
    /\ notified = {}
    /\ pinEvent = NoPin
    /\ unpinErrors = {}
    /\ fileLength = NumBlocks
    /\ sizes = [t \in txs |-> NoSize]

Init == InitWith(Txns, NumBuffs) /\ LogStart /\ StatStart /\ ScanStart({0}) /\ ProdStart({EmptyTable})
            /\ FileStart
            /\ PageStart
            /\ CatStart
            /\ PredStart({<<>>}, {<<>>})
            /\ UndoStart({ZeroBytes(UndoBlockSize)})

\* History of an access of block blk by t: the conflict edges it closes.
NoteRead(t, blk) ==
    /\ readers' = [readers EXCEPT ![blk] = @ \cup {t}]
    /\ prec' = prec \cup {<<u, t>> : u \in writers[blk] \ {t}}
    /\ UNCHANGED <<writers, preimg, wrote>>

NoteWrite(t, blk, off, old, okToLog) ==
    /\ writers' = [writers EXCEPT ![blk] = @ \cup {t}]
    /\ prec' = prec \cup {<<u, t>> : u \in (readers[blk] \cup writers[blk]) \ {t}}
    /\ wrote' = [wrote EXCEPT ![t] = @ \cup {<<blk, off>>}]
    /\ preimg' = IF okToLog /\ <<blk, off>> \notin DOMAIN preimg[t]
                 THEN [preimg EXCEPT ![t] =
                          [loc \in DOMAIN @ \cup {<<blk, off>>} |->
                              IF loc = <<blk, off>> THEN old ELSE @[loc]]]
                 ELSE preimg
    /\ UNCHANGED readers

NoteNothing == UNCHANGED <<readers, writers, prec, preimg, wrote>>

Active(t) == sys = "up" /\ txState[t] = "active" /\ pc[t] = "idle"
MayCall(t) == Active(t) /\ nops[t] < MaxOps
Called(t) == nops' = [nops EXCEPT ![t] = @ + 1]
Park(t, where, call) ==
    /\ pc' = [pc EXCEPT ![t] = where]
    /\ pend' = [pend EXCEPT ![t] = call]
Return(t) ==
    /\ pc' = [pc EXCEPT ![t] = "idle"]
    /\ pend' = [pend EXCEPT ![t] = NoCall]

\* Transaction(fm, lm, bm): the next transaction number and the START record, while
\* the counter is below limit.
StartTx(limit) ==
    /\ sys = "up"
    /\ nextTxNum < limit
    /\ nextTxNum' = nextTxNum + 1
    /\ Install(LogAppend(Cur, StartRec(nextTxNum + 1)))
    /\ txState' = [txState EXCEPT ![nextTxNum + 1] = "active"]
    /\ NoteNothing
    /\ UNCHANGED <<pc, pend, nops, sys, crashed>>

Begin == StartTx(MaxTx)

\* Transaction.pin(blk): BufferMgr.pin returns at once or waits.
PinCall(t, blk) ==
    /\ Called(t)
    /\ IF TryToPinBuff(Cur, blk) # NoBuff
       THEN Install(BlPin(Cur, t, blk)) /\ UNCHANGED <<pc, pend>>
       ELSE Install(Cur) /\ Park(t, "pin", [NoCall EXCEPT !.kind = "pin", !.blk = blk])
    /\ NoteNothing
    /\ UNCHANGED <<nextTxNum, txState, sys, crashed>>

Pin(t, blk) == MayCall(t) /\ PinCall(t, blk)

\* What a pin that had to wait ends with: the buffer it returns (NoBuff for
\* BufferAbortError), whether an unpin notified the waiter, and whether a buffer was
\* unpinned and the block not resident when _try_to_pin ran again.
PinEnd(t, buff) ==
    [tx |-> t, blk |-> pend[t].blk, buff |-> buff, notified |-> t \in notified,
     free |-> /\ \E i \in DOMAIN bufferpool : bufferpool[i].pins = 0
              /\ \A i \in DOMAIN bufferpool : bufferpool[i].blk # pend[t].blk]

\* BufferMgr.pin: the wait ends and _try_to_pin finds a buffer.
PinRetry(t) ==
    /\ sys = "up" /\ pc[t] = "pin"
    /\ TryToPinBuff(Cur, pend[t].blk) # NoBuff
    /\ Install([BlPin(Cur, t, pend[t].blk) EXCEPT
                   !.ntf = @ \ {t}, !.pe = PinEnd(t, TryToPinBuff(Cur, pend[t].blk))])
    /\ Return(t)
    /\ NoteNothing
    /\ UNCHANGED <<nextTxNum, txState, nops, sys, crashed>>

\* A pin that gives up and leaves _num_available one too low.
PinTimeoutLeaks(t) ==
    /\ sys = "up" /\ pc[t] = "pin"
    /\ TryToPinBuff(Cur, pend[t].blk) = NoBuff
    /\ Install([Cur EXCEPT !.avail = @ - 1, !.ntf = @ \ {t}, !.pe = PinEnd(t, NoBuff)])
    /\ Return(t)
    /\ NoteNothing
    /\ UNCHANGED <<nextTxNum, txState, nops, sys, crashed>>

\* BufferMgr.pin: the wait ends, _try_to_pin finds nothing and the time is up:
\* BufferAbortError.
PinTimeout(t) ==
    /\ sys = "up" /\ pc[t] = "pin"
    /\ TryToPinBuff(Cur, pend[t].blk) = NoBuff
    /\ Install([Cur EXCEPT !.ntf = @ \ {t}, !.pe = PinEnd(t, NoBuff)])
    /\ Return(t)
    /\ NoteNothing
    /\ UNCHANGED <<nextTxNum, txState, nops, sys, crashed>>

\* Transaction.unpin(blk)
UnpinCall(t, blk) ==
    /\ Called(t)
    /\ Install(BlUnpin(Cur, t, blk))
    /\ NoteNothing
    /\ UNCHANGED <<nextTxNum, txState, pc, pend, sys, crashed>>

\* Transaction.unpin(blk) of a block the transaction has pinned.
Unpin(t, blk) == MayCall(t) /\ blBuffers[t][blk] # NoBuff /\ UnpinCall(t, blk)

PendGet(blk) == [NoCall EXCEPT !.kind = "get", !.blk = blk]
PendSet(blk, off, val, okToLog) ==
    [kind |-> "set", blk |-> blk, off |-> off, val |-> val, log |-> okToLog]

\* The value Transaction.get_int / get_string of t reads at (blk, off).
PageVal(m, t, blk, off) == m.pool[m.blb[t][blk]].contents[off]

\* Transaction.get_int / get_string on a pinned block: the S lock, then the read.
GetCall(t, blk) ==
    /\ blBuffers[t][blk] # NoBuff
    /\ Called(t)
    /\ IF SlockWaits(Cur, t, blk)
       THEN Install(Cur) /\ Park(t, "slock", PendGet(blk)) /\ NoteNothing
       ELSE Install(CmSlock(Cur, t, blk)) /\ UNCHANGED <<pc, pend>> /\ NoteRead(t, blk)
    /\ UNCHANGED <<nextTxNum, txState, sys, crashed>>

Get(t, blk) == MayCall(t) /\ GetCall(t, blk)

\* Transaction.set_int / set_string on a pinned block: the lock calls, which may
\* wait, then the logged or unlogged write.
SetCall(t, blk, off, val, okToLog) ==
    /\ blBuffers[t][blk] # NoBuff
    /\ Called(t)
    /\ IF SlockWaits(Cur, t, blk)
       THEN Install(Cur) /\ Park(t, "slock", PendSet(blk, off, val, okToLog)) /\ NoteNothing
       ELSE IF cmLocks[t][blk] # "X" /\ XlockWaits(CmSlock(Cur, t, blk), blk)
       THEN /\ Install(CmSlock(Cur, t, blk))
            /\ Park(t, "xlock", PendSet(blk, off, val, okToLog))
            /\ NoteNothing
       ELSE /\ Install(TxSet(Cur, t, blk, off, val, okToLog))
            /\ UNCHANGED <<pc, pend>>
            /\ NoteWrite(t, blk, off, PageVal(Cur, t, blk, off), okToLog)
    /\ UNCHANGED <<nextTxNum, txState, sys, crashed>>

Set(t, blk, off, val, okToLog) == MayCall(t) /\ SetCall(t, blk, off, val, okToLog)

\* LockTable.slock: the wait ends with no X lock on the block; a get reads, a set
\* goes on to LockTable.xlock.
SlockRetry(t) ==
    /\ sys = "up" /\ pc[t] = "slock"
    /\ ~HasXlock(locks[pend[t].blk])
    /\ LET c == pend[t] IN
       IF c.kind = "get"
       THEN Install(CmSlock(Cur, t, c.blk)) /\ Return(t) /\ NoteRead(t, c.blk)
       ELSE IF XlockWaits(CmSlock(Cur, t, c.blk), c.blk)
       THEN /\ Install(CmSlock(Cur, t, c.blk))
            /\ Park(t, "xlock", c)
            /\ NoteNothing
       ELSE /\ Install(TxSet(Cur, t, c.blk, c.off, c.val, c.log))
            /\ Return(t)
            /\ NoteWrite(t, c.blk, c.off, PageVal(Cur, t, c.blk, c.off), c.log)
    /\ UNCHANGED <<nextTxNum, txState, nops, sys, crashed>>

\* LockTable.xlock: the wait ends with no other S lock on the block; the set is done.
XlockRetry(t) ==
    /\ sys = "up" /\ pc[t] = "xlock"
    /\ ~XlockWaits(Cur, pend[t].blk)
    /\ LET c == pend[t] IN
       /\ Install(TxWrite(CmXlockUpgrade(Cur, t, c.blk), t, c.blk, c.off, c.val, c.log))
       /\ NoteWrite(t, c.blk, c.off, PageVal(Cur, t, c.blk, c.off), c.log)
    /\ Return(t)
    /\ UNCHANGED <<nextTxNum, txState, nops, sys, crashed>>

\* slock / xlock that wait without a time limit.
WaitForever(t, where) == FALSE /\ UNCHANGED vars

\* LockTable.slock / xlock: the wait ends, the lock is still held by others and the
\* time is up: LockAbortError, which leaves the thread at `where`.
LockAbort(t, where) ==
    /\ sys = "up"
    /\ \/ pc[t] = "slock" /\ HasXlock(locks[pend[t].blk])
       \/ pc[t] = "xlock" /\ XlockWaits(Cur, pend[t].blk)
    /\ Install(Cur)
    /\ pc' = [pc EXCEPT ![t] = where]
    /\ pend' = [pend EXCEPT ![t] = NoCall]
    /\ NoteNothing
    /\ UNCHANGED <<nextTxNum, txState, nops, sys, crashed>>

\* The caller goes on with the transaction after LockAbortError.
LockTimeout(t) == LockAbort(t, "idle")

\* The history of a transaction is dropped when it ends.
Forget(t) ==
    /\ preimg' = [preimg EXCEPT ![t] = EmptyFn]
    /\ wrote' = [wrote EXCEPT ![t] = {}]
    /\ nops' = [nops EXCEPT ![t] = 0]

\* Transaction.commit.
Commit(t) ==
    /\ Active(t)
    /\ Install(TxCommit(Cur, t))
    /\ txState' = [txState EXCEPT ![t] = "committed"]
    /\ Forget(t)
    /\ UNCHANGED <<readers, writers, prec>>
    /\ UNCHANGED <<nextTxNum, pc, pend, sys, crashed>>

\* Transaction.rollback, when no pin of an undo has to wait.
RollbackCall(t) ==
    /\ sys = "up" /\ txState[t] = "active"
    /\ RollbackReady(Cur, t)
    /\ Install(TxRollback(Cur, t))
    /\ txState' = [txState EXCEPT ![t] = "rolledback"]
    /\ Forget(t)
    /\ readers' = [b \in Blocks |-> readers[b] \ {t}]
    /\ writers' = [b \in Blocks |-> writers[b] \ {t}]
    /\ prec' = {e \in prec : e[1] # t /\ e[2] # t}
    /\ UNCHANGED <<nextTxNum, pc, pend, sys, crashed>>

Rollback(t) == pc[t] = "idle" /\ RollbackCall(t)


\* The machine as the process can die in it: between two calls, or inside
\* RecoveryMgr.commit after flush_all and before the COMMIT record is flushed, or
\* inside RecoveryMgr.rollback before the ROLLBACK record is flushed.
DeathStates ==
    {Cur} \cup {FlushAll(Cur, t) : t \in {u \in DOMAIN txState : Active(u)}}
          \cup {FlushAll(DoRollback(Cur, t), t) :
                   t \in {u \in DOMAIN txState : Active(u) /\ RollbackReady(Cur, u)}}

\* The process dies and SimpleDB(dirname) starts again on the directory: what was
\* not written is lost; a new LogMgr on the log file, a new BufferMgr, a new lock
\* table and transaction counter, and the startup transaction.
CrashRestart ==
    /\ sys = "up"
    /\ \E d \in DeathStates :
       /\ LET m0 == [pool |-> [i \in DOMAIN bufferpool |-> NewBuffer],
                     avail |-> Len(bufferpool), disk |-> d.disk,
                     log |-> SubSeq(d.log, 1, d.saved), saved |-> d.saved,
                     bnd |-> d.dbnd, dbnd |-> d.dbnd,
                     latest |-> 0, lastSaved |-> 0,
                     locks |-> [b \in LockBlocks |-> 0],
                     cm |-> [t \in DOMAIN txState |-> [b \in LockBlocks |-> "N"]],
                     blp |-> [t \in DOMAIN txState |-> [b \in Blocks |-> 0]],
                     blb |-> [t \in DOMAIN txState |-> [b \in Blocks |-> NoBuff]],
                     waiting |-> {}, ntf |-> {},
                     pw |-> {}, fa |-> {}, unw |-> {}, ce |-> NoCommit, pe |-> NoPin, ue |-> {},
                     flen |-> d.flen, sz |-> [t \in DOMAIN txState |-> NoSize]]
          IN Install(LogAppend(m0, StartRec(StartupTx)))
       /\ crashed' = [pre |-> [t \in {u \in DOMAIN txState : txState[u] = "active"} |-> preimg[t]],
                      disk |-> d.disk]
    /\ nextTxNum' = StartupTx
    /\ txState' = [t \in DOMAIN txState |-> IF t = StartupTx THEN "active" ELSE "none"]
    /\ pc' = [t \in DOMAIN txState |-> "idle"]
    /\ pend' = [t \in DOMAIN txState |-> NoCall]
    /\ nops' = [t \in DOMAIN txState |-> 0]
    /\ sys' = "restarted"
    /\ preimg' = [t \in DOMAIN txState |-> EmptyFn]
    /\ wrote' = [t \in DOMAIN txState |-> {}]
    /\ readers' = [b \in Blocks |-> {}]
    /\ writers' = [b \in Blocks |-> {}]
    /\ prec' = {}

\* tx.recover() of SimpleDB.__init__; the model follows the new process up to here.
Recover ==
    /\ sys = "restarted"
    /\ Install(TxRecover(Cur, StartupTx))
    /\ sys' = "recovered"
    /\ NoteNothing
    /\ UNCHANGED <<nextTxNum, txState, pc, pend, nops, crashed>>

\* tx.recover() once more, directly after the first.
RecoverAgain ==
    /\ sys = "recovered"
    /\ Install(TxRecover(Cur, StartupTx))
    /\ sys' = "recoveredTwice"
    /\ NoteNothing
    /\ UNCHANGED <<nextTxNum, txState, pc, pend, nops, crashed>>

Next ==
    \/ Begin
    \/ \E t \in Txns, blk \in Blocks : Pin(t, blk)
    \/ \E t \in Txns : PinRetry(t)
    \/ \E t \in Txns : PinTimeout(t)
    \/ \E t \in Txns, blk \in Blocks : Unpin(t, blk)
    \/ \E t \in Txns, blk \in Blocks : Get(t, blk)
    \/ \E t \in Txns, blk \in Blocks, off \in Offsets, okToLog \in BOOLEAN :
          \E val \in ValsAt(off) : Set(t, blk, off, val, okToLog)
    \/ \E t \in Txns : SlockRetry(t)
    \/ \E t \in Txns : XlockRetry(t)
    \/ \E t \in Txns : LockTimeout(t)
    \/ \E t \in Txns : Commit(t)
    \/ \E t \in Txns : Rollback(t)
    \/ CrashRestart
    \/ Recover
    \/ RecoverAgain

Spec == Init /\ [][Next]_vars

\* ------------------------------------------- size and append of transactions
\* Transactions that call size(f) and append(f) on the data file, commit and roll
\* back.  Both calls lock the dummy block of the file through the lock calls of
\* get and set, and can wait in them.
PendSize == [NoCall EXCEPT !.kind = "size", !.blk = EndOfFile]
PendAppend == [NoCall EXCEPT !.kind = "append", !.blk = EndOfFile]

\* size() of t returns: the history of what it returned.
SizeReturned(m, t) ==
    [m EXCEPT !.sz[t] = [seen |-> m.flen, own |-> 0, calls |-> @.calls + 1]]

\* append() of t returns.
AppendReturned(m, t) == [m EXCEPT !.sz[t].own = @ + 1]

\* Transaction.size(filename)
Size(t) ==
    /\ MayCall(t)
    /\ Called(t)
    /\ IF SlockWaits(Cur, t, EndOfFile)
       THEN Install(Cur) /\ Park(t, "slock", PendSize)
       ELSE Install(SizeReturned(TxSize(Cur, t), t)) /\ UNCHANGED <<pc, pend>>
    /\ NoteNothing
    /\ UNCHANGED <<nextTxNum, txState, sys, crashed>>

\* Transaction.append(filename)
AppendBlock(t) ==
    /\ MayCall(t)
    /\ Called(t)
    /\ IF SlockWaits(Cur, t, EndOfFile)
       THEN Install(Cur) /\ Park(t, "slock", PendAppend)
       ELSE IF cmLocks[t][EndOfFile] # "X" /\ XlockWaits(CmSlock(Cur, t, EndOfFile), EndOfFile)
       THEN Install(CmSlock(Cur, t, EndOfFile)) /\ Park(t, "xlock", PendAppend)
       ELSE Install(AppendReturned(TxAppend(Cur, t), t)) /\ UNCHANGED <<pc, pend>>
    /\ NoteNothing
    /\ UNCHANGED <<nextTxNum, txState, sys, crashed>>

\* LockTable.slock on the dummy block: the wait ends with no X lock on it; size
\* returns, append goes on to LockTable.xlock.
EofSlockRetry(t) ==
    /\ sys = "up" /\ pc[t] = "slock" /\ pend[t].blk = EndOfFile
    /\ ~HasXlock(locks[EndOfFile])
    /\ IF pend[t].kind = "size"
       THEN Install(SizeReturned(TxSize(Cur, t), t)) /\ Return(t)
       ELSE IF XlockWaits(CmSlock(Cur, t, EndOfFile), EndOfFile)
       THEN Install(CmSlock(Cur, t, EndOfFile)) /\ Park(t, "xlock", PendAppend)
       ELSE Install(AppendReturned(TxAppend(Cur, t), t)) /\ Return(t)
    /\ NoteNothing
    /\ UNCHANGED <<nextTxNum, txState, nops, sys, crashed>>

\* LockTable.xlock on the dummy block: the wait ends with no other S lock on it;
\* the block is appended.
EofXlockRetry(t) ==
    /\ sys = "up" /\ pc[t] = "xlock" /\ pend[t].blk = EndOfFile
    /\ ~XlockWaits(Cur, EndOfFile)
    /\ Install(AppendReturned(TxAppended(CmXlockUpgrade(Cur, t, EndOfFile)), t))
    /\ Return(t)
    /\ NoteNothing
    /\ UNCHANGED <<nextTxNum, txState, nops, sys, crashed>>

EofNext ==
    \/ Begin
    \/ \E t \in Txns : Size(t)
    \/ \E t \in Txns : AppendBlock(t)
    \/ \E t \in Txns : EofSlockRetry(t)
    \/ \E t \in Txns : EofXlockRetry(t)
    \/ \E t \in Txns : LockTimeout(t)
    \/ \E t \in Txns : Commit(t)
    \/ \E t \in Txns : Rollback(t)

EofSpec == Init /\ [][EofNext]_vars

\* C15 -- No phantom at end of file: while a transaction that has called size(f) is
\* active (it holds the lock on the dummy block), no other transaction's append(f)
\* completes; and a size(f) of a transaction returns what its size(f) before
\* returned plus the blocks the transaction itself has appended in between.
NoEofPhantom ==
    [][/\ fileLength' # fileLength =>
             \E u \in DOMAIN txState :
                /\ sizes'[u].own = sizes[u].own + 1
                /\ \A t \in DOMAIN txState \ {u} :
                      txState[t] = "active" => cmLocks[t][EndOfFile] = "N"
       /\ \A t \in DOMAIN txState :
             (sizes[t].calls > 0 /\ sizes'[t].calls = sizes[t].calls + 1) =>
                 sizes'[t].seen = sizes[t].seen + sizes[t].own]_vars

\* A transaction has called size twice with an append of its own in between, while
\* another one has been waiting to append.
NoEofPhantomWitness ==
    \E t, u \in DOMAIN txState :
       /\ t # u
       /\ sizes[t].calls = 2 /\ sizes[t].seen = NumBlocks + 1
       /\ pc[u] \in {"slock", "xlock"} /\ pend[u].kind = "append"

\* ------------------------------------------------------ the steps of StatMgr
\* TableMgr.create_table adds a table to the catalog.
CreateTable(tblname) ==
    /\ stat.built
    /\ tblname \notin stat.catalog
    /\ stat' = [stat EXCEPT !.catalog = @ \cup {tblname}]
    /\ UNCHANGED <<statPc, statResult>>
    /\ UNCHANGED notStat

\* get_stat_info(tblname, layout, tx): `with self._lock`, the counter, the test.
GetStatInfo(t, tblname) ==
    /\ stat.built
    /\ statPc[t].at = "out"
    /\ stat.lock = 0
    /\ stat' = [stat EXCEPT !.lock = t, !.numcalls = @ + 1]
    /\ statPc' = [statPc EXCEPT ![t] = [at |-> IF stat.numcalls + 1 > RefreshAfter
                                               THEN "refresh" ELSE "lookup",
                                        tbl |-> tblname]]
    /\ UNCHANGED statResult
    /\ UNCHANGED notStat

\* _refresh_statistics, called by __init__ or by get_stat_info: `with self._lock`
\* takes the lock when no thread holds it, the body runs and the lock is given back.
Refresh(t) ==
    /\ statPc[t].at \in {"init", "refresh"}
    /\ stat.lock = 0
    /\ stat' = [RefreshStatistics(stat) EXCEPT !.built = TRUE]
    /\ statPc' = [statPc EXCEPT ![t] = IF @.at = "init" THEN NotCalling
                                       ELSE [@ EXCEPT !.at = "lookup"]]
    /\ UNCHANGED statResult
    /\ UNCHANGED notStat

\* get_stat_info returns the StatInfo and leaves the lock.
GetStatInfoReturn(t) ==
    /\ statPc[t].at = "lookup"
    /\ stat' = [LookUp(stat, statPc[t].tbl) EXCEPT !.lock = 0]
    /\ statResult' = [statResult EXCEPT ![t] = statPc[t].tbl]
    /\ statPc' = [statPc EXCEPT ![t] = NotCalling]
    /\ UNCHANGED notStat

\* The steps of thread t.
StatStep(t) ==
    \/ \E tblname \in Tables : GetStatInfo(t, tblname)
    \/ Refresh(t)
    \/ GetStatInfoReturn(t)

StatNext ==
    \/ \E tblname \in Tables : CreateTable(tblname)
    \/ \E t \in StatThreads, tblname \in Tables : GetStatInfo(t, tblname)
    \/ \E t \in StatThreads : Refresh(t)
    \/ \E t \in StatThreads : GetStatInfoReturn(t)

\* Every thread is scheduled: a thread that can take a step takes one.  A thread
\* waiting for self._lock can take its step when no thread holds the lock.
StatSpec == Init /\ [][StatNext]_vars /\ \A t \in StatThreads : WF_vars(StatStep(t))

\* C16 -- Statistics refresh: the get_stat_info call that finds the counter above 100
\* (the 101st since the last refresh) calls _refresh_statistics and goes on to look up
\* the table and return: it terminates.
StatRefreshTerminates ==
    \A t \in StatThreads : (statPc[t].at = "refresh") ~> (statPc[t].at = "out")

\* ------------------------------------------------- the steps of a table scan
Position(m) == <<m.blk, m.slot>>

\* insert(): the call and its first insert_after.  The call returns when a slot was
\* found; otherwise it is in its loop.
Insert ==
    /\ scanPc = "idle"
    /\ LET r == TsStepInsert(scan)
       IN /\ scan' = r
          /\ scanPc' = IF r.slot >= 0 THEN "idle" ELSE "insert"
          /\ scanH' = [scanH EXCEPT
                 !.op = IF r.slot >= 0 THEN "insert" ELSE "inserting",
                 !.before = scan.file,
                 !.appended = 0,
                 !.iter = "dirty",
                 !.inserted = IF r.slot >= 0 /\ ~scanH.deleted THEN Append(@, Position(r)) ELSE @,
                 !.fill = IF r.slot >= 0 /\ scanH.filling = "yes" THEN @ + 1 ELSE @,
                 !.filling = IF @ # "yes" THEN "no" ELSE IF r.slot >= 0 THEN "yes" ELSE "full"]
    /\ UNCHANGED notScan

\* One turn of the loop of insert(): the next block, or a new one at the end of the
\* file, and insert_after again.
InsertRetry ==
    /\ scanPc = "insert"
    /\ TsAtLastBlock(scan) => FmLength(scan.file) < MaxScanBlocks
    /\ LET r == TsInsertTurn(scan)
       IN /\ scan' = r
          /\ scanPc' = IF r.slot >= 0 THEN "idle" ELSE "insert"
          /\ scanH' = [scanH EXCEPT
                 !.op = IF r.slot >= 0 THEN "insert" ELSE "inserting",
                 !.appended = IF TsAtLastBlock(scan) THEN @ + 1 ELSE @,
                 !.inserted = IF r.slot >= 0 /\ ~scanH.deleted THEN Append(@, Position(r)) ELSE @,
                 !.filling = "no"]
    /\ UNCHANGED notScan

\* next()
ScanNext ==
    /\ scanPc = "idle"
    /\ LET r == TsNext(scan)
       IN /\ scan' = r
          /\ scanH' = [scanH EXCEPT
                 !.op = "next",
                 !.seen = IF r.ok /\ scanH.iter = "clean" THEN Append(@, Position(r)) ELSE @,
                 !.iter = IF @ = "clean" /\ ~r.ok THEN "done" ELSE IF @ = "done" THEN "over" ELSE @,
                 !.filling = "no"]
    /\ UNCHANGED scanPc
    /\ UNCHANGED notScan

\* before_first()
BeforeFirst ==
    /\ scanPc = "idle"
    /\ scan' = TsBeforeFirst(scan)
    /\ scanH' = [scanH EXCEPT !.op = "before_first", !.iter = "clean", !.seen = <<>>,
                              !.filling = "no"]
    /\ UNCHANGED scanPc
    /\ UNCHANGED notScan

\* delete() on the record the scan is positioned on
Delete ==
    /\ scanPc = "idle"
    /\ scan.slot >= 0
    /\ scan' = TsDelete(scan)
    /\ scanH' = [scanH EXCEPT !.op = "delete", !.iter = "dirty", !.deleted = TRUE, !.inserted = <<>>,
                              !.filling = "no"]
    /\ UNCHANGED scanPc
    /\ UNCHANGED notScan

\* set_int(fldname, val) on the record the scan is positioned on
SetInt(f, val) ==
    /\ scanPc = "idle"
    /\ scan.slot >= 0
    /\ f <= scan.nf
    /\ scan' = TsSetInt(scan, f, val)
    /\ scanH' = [scanH EXCEPT !.op = "set_int", !.filling = IF @ = "yes" THEN "yes" ELSE "no"]
    /\ UNCHANGED scanPc
    /\ UNCHANGED notScan

ScanSteps ==
    \/ Insert
    \/ InsertRetry
    \/ ScanNext
    \/ BeforeFirst
    \/ Delete
    \/ \E f \in 1..MaxFields, val \in IntVals : SetInt(f, val)

ScanInit == InitWith(Txns, NumBuffs) /\ LogStart /\ StatStart /\ ScanStart(0..MaxFields)
            /\ ProdStart({EmptyTable})
            /\ FileStart
            /\ PageStart
            /\ CatStart
            /\ PredStart({<<>>}, {<<>>})
            /\ UndoStart({ZeroBytes(UndoBlockSize)})

ScanSpec == ScanInit /\ [][ScanSteps]_vars

\* C17 -- TableScan.insert postcondition, for any layout and any contents: insert()
\* terminates (its loop ends at the latest in the block it appends, whose slots are all
\* EMPTY: it is never still looking after it appended a block), and on return the
\* current slot was EMPTY before the call or lies in a block the call appended, is USED
\* now, and every other flag of the file is as it was.
InsertPostcondition ==
    /\ scanPc = "insert" => scanH.appended = 0
    /\ scanH.op = "insert" =>
          /\ scan.slot >= 0
          /\ IsValidSlot(scan, scan.slot)
          /\ FlagOf(scan.file, scan.nf, scan.blk, scan.slot) = USED
          /\ IF scan.blk < Len(scanH.before)
             THEN FlagOf(scanH.before, scan.nf, scan.blk, scan.slot) = EMPTY
             ELSE scanH.appended >= 1
          /\ \A b \in 0..(Len(scanH.before) - 1), k \in 0..(SlotsPerBlock(scan.nf) - 1) :
                <<b, k>> # Position(scan) =>
                    FlagOf(scan.file, scan.nf, b, k) = FlagOf(scanH.before, scan.nf, b, k)

IsPrefix(s, t) == Len(s) <= Len(t) /\ SubSeq(t, 1, Len(s)) = s

\* C18 -- TableScan iteration: after before_first(), with no insert or delete in
\* between, the slots on which next() returned true are the USED slots of the file
\* met so far in (block number, slot) order, each once, and all of them when next()
\* has returned false; rows inserted one after another into an empty table, none
\* deleted, come back in the order of their insertion.
Iteration ==
    /\ scanH.iter = "clean" => IsPrefix(scanH.seen, UsedSlots(scan.file, scan.nf))
    /\ scanH.iter = "clean" /\ scanH.op = "next" => scan.ok /\ Position(scan) = scanH.seen[Len(scanH.seen)]
    /\ scanH.iter = "done" => /\ scanH.seen = UsedSlots(scan.file, scan.nf)
                              /\ ~scan.ok
                              /\ ~scanH.deleted => scanH.seen = scanH.inserted

\* A whole iteration over rows in two blocks, one of them deleted before.
IterationWitness ==
    /\ scanH.iter = "done"
    /\ scanH.deleted
    /\ Len(scanH.seen) >= 2
    /\ scanH.seen[1][1] # scanH.seen[Len(scanH.seen)][1]

\* C20 -- Slot capacity: on the freshly formatted page, insert_after repeated from
\* slot -1 gives the slots 0, 1, ... in turn and returns -1 after exactly
\* floor(block size / slot size) of them; no operation of the record page reads or
\* writes a slot k with (k + 1) * slot size above the block size, and none reads past
\* the page.
SlotCapacity ==
    /\ scanH.filling = "yes" => /\ scan.slot = scanH.fill - 1
                                /\ scanH.fill <= ScanBlockSize \div SlotSize(scan)
    /\ scanH.filling = "full" => scanH.fill = ScanBlockSize \div SlotSize(scan)
    /\ (scan.top + 1) * SlotSize(scan) <= ScanBlockSize
    /\ ~scan.err
    /\ \A b \in 1..Len(scan.file) : Len(scan.file[b]) = ScanBlockSize

\* A page filled with two slots or more that leaves bytes over, insert_after at -1.
SlotCapacityWitness ==
    /\ scanH.filling = "full"
    /\ scanH.fill >= 2
    /\ ScanBlockSize % SlotSize(scan) # 0
    /\ scan.top = scanH.fill - 1

\* ------------------------------------------------- the steps of a product scan
\* ProductScan(s1, s2)
ProductScanNew ==
    /\ prod.pc = "new"
    /\ prod' = [NewProductScan(prod) EXCEPT !.pc = "open"]
    /\ UNCHANGED notProd

\* next(); the pairs for which it returned true are kept.
ProductNext ==
    /\ prod.pc = "open"
    /\ LET r == PsNext(prod)
       IN prod' = [r EXCEPT !.pc = IF r.ok THEN "open" ELSE "done",
                            !.yielded = IF r.ok THEN Append(@, <<r.s1.slot, r.s2.slot>>) ELSE @]
    /\ UNCHANGED notProd

\* before_first() when the iteration is over
ProductBeforeFirst ==
    /\ prod.pc = "done"
    /\ prod.yielded # <<>>
    /\ prod' = [PsBeforeFirst(prod) EXCEPT !.pc = "open", !.yielded = <<>>, !.ok = FALSE]
    /\ UNCHANGED notProd

ProdNext ==
    \/ ProductScanNew
    \/ ProductNext
    \/ ProductBeforeFirst

ProdInit == InitWith(Txns, NumBuffs) /\ LogStart /\ StatStart /\ ScanStart({0})
            /\ ProdStart(TableContents)
            /\ FileStart
            /\ PageStart
            /\ CatStart
            /\ PredStart({<<>>}, {<<>>})
            /\ UndoStart({ZeroBytes(UndoBlockSize)})

ProdSpec == ProdInit /\ [][ProdNext]_vars

Rows(m) == {p[2] : p \in {UsedSlots(m.file, m.nf)[i] : i \in 1..Len(UsedSlots(m.file, m.nf))}}

\* C19 -- Product enumeration: when next() has returned false, it has returned true
\* once for every pair of a row of s1 and a row of s2, m * n times (m or n may be 0),
\* with both scans on a row each time.
ProductEnumeration ==
    prod.pc = "done" =>
        /\ Len(prod.yielded) = Cardinality(Rows(prod.s1)) * Cardinality(Rows(prod.s2))
        /\ {prod.yielded[i] : i \in 1..Len(prod.yielded)} = Rows(prod.s1) \X Rows(prod.s2)

\* ---------------------------------------------------- the steps of FileMgr
\* Each step is one call on the file object; a thread takes FileMgr._lock with the
\* first call of append and write and gives it back with the last.
MayGrow == Len(osFile.bytes) < MaxFileBlocks * FileBlockSize

\* An append that does not take the lock.
AppendBeginUnlocked(t) ==
    /\ fmPc[t].at = "idle"
    /\ MayGrow
    /\ osFile' = OsSeekEnd(osFile)
    /\ fmPc' = [fmPc EXCEPT ![t] = [at |-> "append_tell", blknum |-> 0,
                                    before |-> Len(osFile.bytes) \div FileBlockSize]]
    /\ UNCHANGED <<fmLock, fmH>>
    /\ UNCHANGED notFile

\* append(filename): `with self._lock`, and length(): f.seek(0, os.SEEK_END)
AppendBegin(t) ==
    /\ fmPc[t].at = "idle"
    /\ fmLock = 0
    /\ MayGrow
    /\ fmLock' = t
    /\ osFile' = OsSeekEnd(osFile)
    /\ fmPc' = [fmPc EXCEPT ![t] = [at |-> "append_tell", blknum |-> 0,
                                    before |-> Len(osFile.bytes) \div FileBlockSize]]
    /\ UNCHANGED fmH
    /\ UNCHANGED notFile

\* length(): f.tell(), the assertion and the division; a failed assertion becomes
\* RuntimeError and ends the append.
AppendTell(t) ==
    /\ fmPc[t].at = "append_tell"
    /\ IF OsTell(osFile) % FileBlockSize = 0
       THEN /\ fmPc' = [fmPc EXCEPT ![t].at = "append_seek",
                                    ![t].blknum = OsTell(osFile) \div FileBlockSize]
            /\ UNCHANGED <<fmLock, fmH>>
       ELSE /\ fmPc' = [fmPc EXCEPT ![t] = FmIdle]
            /\ fmLock' = 0
            /\ fmH' = [fmH EXCEPT !.raised = TRUE]
    /\ UNCHANGED osFile
    /\ UNCHANGED notFile

\* append: f.seek(blk.blknum * self._blocksize)
AppendSeek(t) ==
    /\ fmPc[t].at = "append_seek"
    /\ osFile' = OsSeek(osFile, fmPc[t].blknum * FileBlockSize)
    /\ fmPc' = [fmPc EXCEPT ![t].at = "append_write"]
    /\ UNCHANGED <<fmLock, fmH>>
    /\ UNCHANGED notFile

\* append: f.write(b), the lock is given back and blk returned.
AppendWrite(t) ==
    /\ fmPc[t].at = "append_write"
    /\ osFile' = OsWrite(osFile, ZeroBytes(FileBlockSize))
    /\ fmLock' = 0
    /\ fmH' = [fmH EXCEPT !.appended = Append(@, [blknum |-> fmPc[t].blknum,
                                                  before |-> fmPc[t].before])]
    /\ fmPc' = [fmPc EXCEPT ![t] = FmIdle]
    /\ UNCHANGED notFile

\* write(blk, p): `with self._lock` and f.seek
WriteBegin(t, blknum) ==
    /\ fmPc[t].at = "idle"
    /\ fmLock = 0
    /\ MayGrow
    /\ fmLock' = t
    /\ osFile' = OsSeek(osFile, blknum * FileBlockSize)
    /\ fmPc' = [fmPc EXCEPT ![t] = [at |-> "write_write", blknum |-> blknum, before |-> 0]]
    /\ UNCHANGED fmH
    /\ UNCHANGED notFile

\* write: f.write(p.contents()), the lock is given back.
WriteWrite(t) ==
    /\ fmPc[t].at = "write_write"
    /\ osFile' = OsWrite(osFile, PageOf(t))
    /\ fmLock' = 0
    /\ fmH' = [fmH EXCEPT !.holes = @ \/ Len(osFile'.bytes) # Len(osFile.bytes)]
    /\ fmPc' = [fmPc EXCEPT ![t] = FmIdle]
    /\ UNCHANGED notFile

\* length(filename), which Transaction.size calls without the lock: f.seek(0, os.SEEK_END)
LengthBegin(t) ==
    /\ fmPc[t].at = "idle"
    /\ osFile' = OsSeekEnd(osFile)
    /\ fmPc' = [fmPc EXCEPT ![t] = [at |-> "length_tell", blknum |-> 0, before |-> 0]]
    /\ UNCHANGED <<fmLock, fmH>>
    /\ UNCHANGED notFile

\* length: f.tell(), the assertion and the division
LengthTell(t) ==
    /\ fmPc[t].at = "length_tell"
    /\ fmPc' = [fmPc EXCEPT ![t] = FmIdle]
    /\ fmH' = [fmH EXCEPT !.raised = @ \/ OsTell(osFile) % FileBlockSize # 0]
    /\ UNCHANGED <<osFile, fmLock>>
    /\ UNCHANGED notFile

FileNext ==
    \/ \E t \in FmThreads : AppendBegin(t)
    \/ \E t \in FmThreads : AppendTell(t)
    \/ \E t \in FmThreads : AppendSeek(t)
    \/ \E t \in FmThreads : AppendWrite(t)
    \/ \E t \in FmThreads, blknum \in 0..(MaxFileBlocks - 1) : WriteBegin(t, blknum)
    \/ \E t \in FmThreads : WriteWrite(t)
    \/ \E t \in FmThreads : LengthBegin(t)
    \/ \E t \in FmThreads : LengthTell(t)

FileSpec == Init /\ [][FileNext]_vars

PgSetInt(o, v) ==
    /\ pg.sets < MaxSets
    /\ o + 4 <= PageBlockSize
    /\ pg' = [pg EXCEPT !.p1 = PageSetInt(@, o, v), !.sets = @ + 1,
                        !.last = [NoPageOp EXCEPT !.op = "int", !.o = o, !.v = v]]
    /\ UNCHANGED notPage

\* p1.set_string(o, s) with the encoded string ending inside the page
PgSetString(o, s) ==
    /\ pg.sets < MaxSets
    /\ o + 4 + Len(Encode(s)) <= PageBlockSize
    /\ pg' = [pg EXCEPT !.p1 = PageSetString(@, o, s), !.sets = @ + 1,
                        !.last = [NoPageOp EXCEPT !.op = "str", !.o = o, !.s = s]]
    /\ UNCHANGED notPage

\* fm.write(blk, p1)
PgWrite(blknum) ==
    /\ pg' = [pg EXCEPT !.f = WriteOn(@, PageBlockSize, blknum, pg.p1),
                        !.wrote[blknum] = pg.p1,
                        !.last = [NoPageOp EXCEPT !.op = "write", !.blknum = blknum]]
    /\ UNCHANGED notPage

\* fm.read(blk, p2)
PgRead(blknum) ==
    /\ pg' = [pg EXCEPT !.p2 = ReadOn(pg.f, PageBlockSize, blknum, @),
                        !.f = OsSeek(@, Min(Len(@.bytes), (blknum + 1) * PageBlockSize)),
                        !.last = [NoPageOp EXCEPT !.op = "read", !.blknum = blknum]]
    /\ UNCHANGED notPage

PageNext ==
    \/ \E o \in 0..PageBlockSize, v \in PageInts : PgSetInt(o, v)
    \/ \E o \in 0..PageBlockSize, s \in PageStrs : PgSetString(o, s)
    \/ \E blknum \in PageBlocks : PgWrite(blknum)
    \/ \E blknum \in PageBlocks : PgRead(blknum)

PageSpec == Init /\ [][PageNext]_vars

\* C22 -- Page and block round trip: after set_int(o, v) or set_string(o, s) whose
\* encoding ends at or before the block size, get_int(o) is v and get_string(o) is s,
\* and the page has kept its size; after write(blk, p1) and read(blk, p2), p2 holds
\* what p1 held, so it returns the same values at the same offsets.
PageRoundTrip ==
    /\ Len(pg.p1) = PageBlockSize
    /\ pg.last.op = "int" => PageGetInt(pg.p1, pg.last.o) = pg.last.v
    /\ pg.last.op = "str" => PageGetString(pg.p1, pg.last.o) = pg.last.s
    /\ pg.last.op = "read" /\ pg.wrote[pg.last.blknum] # <<>> =>
          /\ pg.p2 = pg.wrote[pg.last.blknum]
          /\ \A o \in 0..(PageBlockSize - 4) :
                PageGetInt(pg.p2, o) = PageGetInt(pg.wrote[pg.last.blknum], o)

\* A page with a two-byte character and a negative integer behind it has been written
\* to block 1 of the empty file and read back.
PageRoundTripWitness ==
    /\ pg.last.op = "read"
    /\ pg.last.blknum = 1
    /\ pg.wrote[0] = <<>>
    /\ pg.p2 = pg.wrote[1]
    /\ pg.p2 = <<2, 0, 0, 0, 195, 169, 255, 255, 255, 255>>
    /\ PageGetString(pg.p2, 0) = <<233>>
    /\ PageGetInt(pg.p2, 6) = -1

\* ----------------------------------------------------- the steps of TableMgr
\* TableMgr(True, tx): the catalog tables describe themselves.
TableMgrNew ==
    /\ ~cat.built
    /\ cat' = [TmCreateTable(TmCreateTable(cat, TblCatName, TcatLayout.schema),
                             FldCatName, FcatLayout.schema)
                  EXCEPT !.built = TRUE]
    /\ UNCHANGED notCat

\* create_table(tblname, sch, tx) for a table that has not been created
TableCreate(tblname, sch) ==
    /\ cat.built
    /\ tblname \notin DOMAIN cat.created
    /\ cat' = [TmCreateTable(cat, tblname, sch)
                  EXCEPT !.created = [n \in DOMAIN @ \cup {tblname} |->
                                         IF n = tblname THEN sch ELSE @[n]],
                         !.asked = <<>>, !.layout = NoLayout]
    /\ UNCHANGED notCat

\* get_layout(tblname, tx)
LayoutGet(tblname) ==
    /\ cat.built
    /\ cat' = [cat EXCEPT !.asked = tblname, !.layout = TmGetLayout(cat, tblname)]
    /\ UNCHANGED notCat

CatNext ==
    \/ TableMgrNew
    \/ \E tblname \in UserTables, sch \in Schemas : TableCreate(tblname, sch)
    \/ \E tblname \in UserTables \cup {TblCatName, FldCatName} : LayoutGet(tblname)

CatSpec == Init /\ [][CatNext]_vars

\* C23 -- Catalog round trip: for a table created once, get_layout returns the fields
\* in their order with their types and lengths, the offsets and the slot size of
\* Layout.from_schema of the schema it was created with; tblcat holds one row for the
\* table and fldcat one row for each of its fields.
CatalogRoundTrip ==
    /\ cat.asked \in DOMAIN cat.created => cat.layout = FromSchema(cat.created[cat.asked])
    /\ \A n \in DOMAIN cat.created :
          /\ RowsFor(CatScan(cat.tcat, TcatLayout), TcatLayout, n) = 1
          /\ RowsFor(CatScan(cat.fcat, FcatLayout), FcatLayout, n) = Len(cat.created[n])

\* Both tables exist, and the layout of the one created second, of two fields, the
\* VARCHAR first, has been asked for.
CatalogRoundTripWitness ==
    /\ DOMAIN cat.created = UserTables
    /\ cat.asked = OtherTable
    /\ Len(cat.layout.schema) = 2
    /\ cat.layout.schema[1].type = VARCHAR
    /\ cat.layout.slotsize = 48
    /\ Len(cat.fcat) >= 5

\* ------------------------------------------------ the steps of a Predicate
\* conjoin_with(Predicate([t]))
ConjoinWith(t) ==
    /\ Len(pr.terms) < MaxTerms
    /\ pr' = [pr EXCEPT !.terms = @ \o <<t>>, !.op = "conjoined",
                        !.split = NoSplit, !.row = NoRow, !.sat = NoSat]
    /\ UNCHANGED notPred

\* select_sub_pred(sch1), select_sub_pred(sch2) and join_sub_pred(sch1, sch2)
Split ==
    /\ pr.op = "conjoined"
    /\ pr' = [pr EXCEPT !.op = "split",
                        !.split = [sel1 |-> SelectSubPred(pr.terms, pr.sch1),
                                   sel2 |-> SelectSubPred(pr.terms, pr.sch2),
                                   join |-> JoinSubPred(pr.terms, pr.sch1, pr.sch2)]]
    /\ UNCHANGED notPred

\* The terms of a sub-predicate; None has none.
TermsOf(sub) == IF sub = <<>> THEN <<>> ELSE sub[1]

\* is_satisfied of the predicate and of its three sub-predicates on a row of the
\* product of the two tables; a sub-predicate that is None is not asked.
Satisfied(row) ==
    /\ pr.op = "split"
    /\ pr' = [pr EXCEPT !.op = "evaluated", !.row = row,
                        !.sat = [whole |-> IsSatisfied(pr.terms, row),
                                 sel1 |-> IsSatisfied(TermsOf(pr.split.sel1), row),
                                 sel2 |-> IsSatisfied(TermsOf(pr.split.sel2), row),
                                 join |-> IsSatisfied(TermsOf(pr.split.join), row)]]
    /\ UNCHANGED notPred

PredNext ==
    \/ \E t \in Terms : ConjoinWith(t)
    \/ Split
    \/ \E row \in RowsOf(AddAll(pr.sch1, pr.sch2)) : Satisfied(row)

PredInit == InitWith(Txns, NumBuffs) /\ LogStart /\ StatStart /\ ScanStart({0})
            /\ ProdStart({EmptyTable})
            /\ FileStart
            /\ PageStart
            /\ CatStart
            /\ PredStart(Schemas1, Schemas2)
            /\ UndoStart({ZeroBytes(UndoBlockSize)})

PredSpec == PredInit /\ [][PredNext]_vars

\* The field names of a term, and whether all of them are fields of a schema.
FieldsOf(t) == {f \in PredFields : t.lhs.fldname = <<f>> \/ t.rhs.fldname = <<f>>}
FieldsIn(t, sch) == FieldsOf(t) \subseteq {sch[i] : i \in 1..Len(sch)}
IsJoinTerm(t) ==
    /\ FieldsIn(t, pr.sch1 \o pr.sch2) /\ ~FieldsIn(t, pr.sch1) /\ ~FieldsIn(t, pr.sch2)
InSch1(t) == FieldsIn(t, pr.sch1)
InSch2(t) == FieldsIn(t, pr.sch2)

\* C24 -- Predicate splitting: for schemas of disjoint field names,
\* join_sub_pred(sch1, sch2) has exactly the terms that apply to the union of the
\* schemas and to neither schema alone, select_sub_pred(sch) exactly the terms all
\* of whose fields are in sch, each in the order of the predicate; and when every
\* term applies to the union, a row satisfies the predicate iff it satisfies the two
\* select sub-predicates and the join sub-predicate.
PredicateSplitting ==
    pr.op \in {"split", "evaluated"} =>
       /\ TermsOf(pr.split.join) = SelectSeq(pr.terms, IsJoinTerm)
       /\ TermsOf(pr.split.sel1) = SelectSeq(pr.terms, InSch1)
       /\ TermsOf(pr.split.sel2) = SelectSeq(pr.terms, InSch2)
       /\ (pr.op = "evaluated" /\ \A i \in 1..Len(pr.terms) :
                                     FieldsIn(pr.terms[i], pr.sch1 \o pr.sch2)) =>
             (pr.sat.whole = "true" <=>
                 pr.sat.sel1 = "true" /\ pr.sat.sel2 = "true" /\ pr.sat.join = "true")

\* A predicate of a join term and a term on the first table has been split in
\* three and is not satisfied by the row, on which the join term fails.
PredicateSplittingWitness ==
    /\ pr.op = "evaluated"
    /\ Len(pr.terms) = 2
    /\ Len(TermsOf(pr.split.join)) = 1
    /\ Len(TermsOf(pr.split.sel1)) = 1
    /\ pr.split.sel2 = <<>>
    /\ pr.sat.whole = "false" /\ pr.sat.sel1 = "true" /\ pr.sat.join = "false"

\* ------------------------------------------------ the steps of the log on its own
\* A thread enters append(logrec) and takes the lock.
AppendEnter(t, logrec) ==
    /\ lmLock.holder = 0
    /\ logIter.state # "live"
    /\ Len(returned) < MaxAppends
    /\ lmLock' = [holder |-> t, rec |-> logrec]
    /\ UNCHANGED <<lm, returned, logIter, yielded>>
    /\ flushEvent' = NoFlush
    /\ UNCHANGED notLog

\* The body of append and its return.
AppendReturn(t) ==
    /\ lmLock.holder = t
    /\ lm' = LmAppend(lm, lmLock.rec)
    /\ returned' = Append(returned, [lsn |-> lm'.latest_lsn, rec |-> lmLock.rec, by |-> t])
    /\ lmLock' = NoAppend
    /\ UNCHANGED <<logIter, yielded>>
    /\ flushEvent' = NoFlush
    /\ UNCHANGED notLog

\* lm.flush(lsn)
FlushCall(lsn) ==
    /\ lmLock.holder = 0
    /\ logIter.state # "live"
    /\ lm' = LmFlush(lm, lsn)
    /\ UNCHANGED <<lmLock, returned, logIter, yielded>>
    /\ flushEvent' = [lsn |-> lsn, before |-> lm]
    /\ UNCHANGED notLog

\* iter(lm): the log page is written and a LogIterator made on the current block.
IterStart ==
    /\ lmLock.holder = 0
    /\ logIter.state # "live"
    /\ lm' = LmFlushNow(lm)
    /\ logIter' = NewLogIterator(lm'.file, lm'.currentblk)
    /\ yielded' = [upto |-> Len(returned), recs |-> <<>>]
    /\ UNCHANGED <<lmLock, returned>>
    /\ flushEvent' = NoFlush
    /\ UNCHANGED notLog

\* next(it) returns a record.
IterNext ==
    /\ logIter.state = "live"
    /\ ItHasNext(logIter)
    /\ logIter' = ItNext(logIter, lm.file)
    /\ yielded' = [yielded EXCEPT !.recs = Append(@, ItRecord(logIter, lm.file))]
    /\ UNCHANGED <<lm, lmLock, returned>>
    /\ flushEvent' = NoFlush
    /\ UNCHANGED notLog

\* next(it) raises StopIteration.
IterStop ==
    /\ logIter.state = "live"
    /\ ~ItHasNext(logIter)
    /\ logIter' = [logIter EXCEPT !.state = "stopped"]
    /\ UNCHANGED <<lm, lmLock, returned, yielded>>
    /\ flushEvent' = NoFlush
    /\ UNCHANGED notLog

LogNext ==
    \/ \E t \in LogThreads, logrec \in LogRecs : AppendEnter(t, logrec)
    \/ \E t \in LogThreads : AppendReturn(t)
    \/ \E lsn \in 0..MaxAppends : FlushCall(lsn)
    \/ IterStart
    \/ IterNext
    \/ IterStop

LogSpec == Init /\ [][LogNext]_vars

\* C12 -- LSN order: the appends, in the order in which they place their records
\* (several threads append, one at a time inside the lock), return 1, 2, 3, ...
\* with no duplicate and no gap; and backward iteration returns the record of the
\* larger LSN earlier: the i-th record it returns is the one whose append returned
\* the i-th largest LSN.
LsnOrder ==
    /\ \A k \in 1..Len(returned) : returned[k].lsn = k
    /\ \A i \in 1..Len(yielded.recs) :
          \E k \in 1..Len(returned) :
             /\ returned[k].lsn = yielded.upto + 1 - i
             /\ returned[k].rec = yielded.recs[i]

\* Both threads have appended, the log has gone to a second block, and the iterator
\* has returned records of different appends.
LsnOrderWitness ==
    /\ Len(returned) = MaxAppends
    /\ {returned[k].by : k \in 1..Len(returned)} = LogThreads
    /\ lm.currentblk > 0
    /\ Len(yielded.recs) >= 2 /\ yielded.recs[1] # yielded.recs[2]

\* C13 -- Log iteration: iterating the LogMgr after n appends to a new log, of
\* records that each fit in a block, returns exactly the n records, each once, in the
\* reverse of append order, and then stops, also when they span several blocks.
LogIteration ==
    logIter.state # "none" =>
       /\ Len(yielded.recs) <= yielded.upto
       /\ \A i \in 1..Len(yielded.recs) :
             yielded.recs[i] = returned[yielded.upto + 1 - i].rec
       /\ logIter.state = "stopped" => Len(yielded.recs) = yielded.upto
       /\ (logIter.state = "live" /\ Len(yielded.recs) = yielded.upto) => ~ItHasNext(logIter)

\* An iteration over three blocks has stopped after returning records of different
\* lengths.
LogIterationWitness ==
    /\ logIter.state = "stopped"
    /\ lm.currentblk >= 2
    /\ yielded.upto >= 3
    /\ \E i, j \in 1..Len(yielded.recs) : Len(yielded.recs[i]) # Len(yielded.recs[j])

\* After flush(lsn): the log page as it was is the current block of the file,
\* last_saved_lsn is the latest_lsn, and nothing else of the LogMgr has changed.
LogPageWritten ==
    /\ lm.last_saved_lsn = flushEvent.before.latest_lsn
    /\ FmRead(lm.file, lm.currentblk, lm.logpage) = flushEvent.before.logpage
    /\ lm = [flushEvent.before EXCEPT !.file = lm.file,
                                      !.last_saved_lsn = lm.last_saved_lsn]

\* C27 as stated -- LogMgr.flush(lsn) changes nothing (the log file and
\* last_saved_lsn are as before) whenever lsn <= last_saved_lsn, and otherwise
\* writes the current log page and sets last_saved_lsn to latest_lsn.
LogFlushAsStated ==
    flushEvent.lsn >= 0 =>
        IF flushEvent.lsn <= flushEvent.before.last_saved_lsn
        THEN lm = flushEvent.before
        ELSE LogPageWritten

\* C27 -- Log flush, amended: LogMgr.flush(lsn) changes nothing whenever
\* lsn < last_saved_lsn, and otherwise, also when lsn = last_saved_lsn, writes the
\* current log page and sets last_saved_lsn to latest_lsn.
LogFlushNoOp ==
    flushEvent.lsn >= 0 =>
        IF flushEvent.lsn < flushEvent.before.last_saved_lsn
        THEN lm = flushEvent.before
        ELSE LogPageWritten

\* flush(lsn) was called with lsn = last_saved_lsn while a later record was in the
\* log page only, and has written the page.
LogFlushNoOpWitness ==
    /\ flushEvent.lsn > 0
    /\ flushEvent.lsn = flushEvent.before.last_saved_lsn
    /\ flushEvent.before.latest_lsn > flushEvent.lsn
    /\ lm.file # flushEvent.before.file
    /\ lm.last_saved_lsn = lm.latest_lsn

\* ------------------------------------------------------------------ claims

\* C1 -- Write-ahead: whenever Buffer.flush writes a data page (from eviction in
\* assign_to_block, flush_all, commit, rollback or recover), last_saved_lsn is at
\* least the buffer's lsn at the moment of the page write.
WriteAhead == \A w \in pageWrites : w.saved >= w.lsn

\* A page is written whose lsn was ahead of last_saved_lsn when Buffer.flush began.
WriteAheadWitness == \E w \in pageWrites : w.lsn > w.before

\* The set records of transaction t at a location, as positions of the log.
SetRecsAt(log, t, loc) ==
    {k \in 1..Len(log) : /\ log[k].op \in {"SETINT", "SETSTRING"}
                         /\ log[k].tx = t
                         /\ <<log[k].blk, log[k].off>> = loc}

UndoneAt(loc) == {t \in DOMAIN crashed.pre : SetRecsAt(logrecs, t, loc) # {}}

\* C3 -- Recovery atomicity: after recover() has run on the log, every location with
\* a set record of a transaction that has neither COMMIT nor ROLLBACK in the log
\* holds the pre-image of that transaction's first logged write, and recover()
\* changes no other location: what finished transactions wrote stays as it is.
RecoveryAtomicity ==
    [][(sys = "restarted" /\ sys' = "recovered") =>
          \A loc \in Locs :
              /\ \A t \in UndoneAt(loc) : disk'[loc[1]][loc[2]] = crashed.pre[t][loc]
              /\ UndoneAt(loc) = {} => disk'[loc[1]][loc[2]] = disk[loc[1]][loc[2]]]_vars

\* Recovery has run on a log with a COMMIT record, and a value of a transaction that
\* was active at the crash had reached the disk and is undone.
RecoveryAtomicityWitness ==
    /\ sys = "recovered"
    /\ \E k \in 1..Len(logrecs) : logrecs[k].op = "COMMIT"
    /\ \E loc \in Locs : \E t \in UndoneAt(loc) :
          /\ crashed.disk[loc[1]][loc[2]] # crashed.pre[t][loc]
          /\ disk[loc[1]][loc[2]] = crashed.pre[t][loc]

\* The transactions whose ConcurrencyMgr records block b with lock type kinds.
Holders(b, kinds) == {t \in DOMAIN cmLocks : cmLocks[t][b] \in kinds}

\* C4 -- Lock mutual exclusion: a lock table value of -1 means one transaction holds
\* the block exclusively and no other transaction holds a lock on it; a positive
\* value V means exactly V transactions hold a shared lock on it.
LockMutualExclusion ==
    \A b \in Blocks :
        /\ locks[b] = -1 => Cardinality(Holders(b, {"X"})) = 1 /\ Holders(b, {"S"}) = {}
        /\ Holders(b, {"X"}) # {} => locks[b] = -1
        /\ locks[b] > 0 => Cardinality(Holders(b, {"S"})) = locks[b]

\* A block is held exclusively while another transaction waits for a shared lock on it.
LockMutualExclusionWitness ==
    \E b \in Blocks :
        /\ locks[b] = -1
        /\ \E u \in DOMAIN pc : pc[u] = "slock" /\ pend[u].blk = b

\* C5 -- Serializability: the conflict graph of the committed transactions (an edge
\* from u to t when an access of u came before a conflicting access of t) has a
\* serial order: the history of the committed transactions is conflict-serializable.
Serializability ==
    LET done == {t \in DOMAIN txState : txState[t] = "committed"} IN
    \E ord \in [done -> 1..Cardinality(done)] :
        \A e \in prec : (e[1] \in done /\ e[2] \in done) => ord[e[1]] < ord[e[2]]

\* Two committed transactions made conflicting accesses.
SerializabilityWitness ==
    \E e \in prec : txState[e[1]] = "committed" /\ txState[e[2]] = "committed"

\* C7 -- Repeatable read: while a transaction holds a shared lock on a block and has
\* not ended, no step changes what a read of the block returns and no other
\* transaction's set on the block takes effect; a writer that asked in between is
\* still waiting.
RepeatableRead ==
    [][\A t \in DOMAIN txState, b \in Blocks :
          (cmLocks[t][b] = "S" /\ cmLocks'[t][b] = "S") =>
              /\ \A off \in Offsets : LocVal(Cur, <<b, off>>)' = LocVal(Cur, <<b, off>>)
              /\ \A u \in DOMAIN txState \ {t} :
                    {loc \in wrote'[u] : loc[1] = b} \subseteq wrote[u]]_vars

\* A reader holds its shared lock on a block while a writer of the block waits.
RepeatableReadWitness ==
    \E t, u \in DOMAIN txState, b \in Blocks :
        /\ t # u /\ cmLocks[t][b] = "S" /\ pc[t] = "idle" /\ t \in readers[b]
        /\ pc[u] = "xlock" /\ pend[u].blk = b

\* C8 -- Force at commit: when commit() returns, every page the transaction modified
\* was written to disk before its COMMIT record was appended, and last_saved_lsn is
\* at least the lsn of the COMMIT record.
ForceAtCommit ==
    lastCommit.tx # 0 => lastCommit.unflushed = {} /\ lastCommit.saved >= lastCommit.lsn

\* A transaction commits that had modified a page not yet written.
ForceAtCommitWitness == lastCommit.tx # 0 /\ lastCommit.dirty # {}

\* Every transaction that was started has ended.
AllEnded ==
    /\ sys = "up"
    /\ \E t \in DOMAIN txState : txState[t] # "none"
    /\ \A t \in DOMAIN txState : txState[t] # "active"

\* C9 -- Release at transaction end: a transaction that has committed or rolled back
\* holds no lock and contributes no pin; once every transaction has ended the lock
\* table is empty and the number of available buffers is the pool size.
ReleaseAtEnd ==
    /\ \A t \in DOMAIN txState :
          txState[t] \in {"committed", "rolledback"} =>
              \A b \in Blocks : /\ cmLocks[t][b] = "N"
                                /\ blPins[t][b] = 0
                                /\ blBuffers[t][b] = NoBuff
    /\ AllEnded => /\ \A b \in Blocks : locks[b] = 0
                   /\ numAvailable = Len(bufferpool)
                   /\ \A i \in DOMAIN bufferpool : bufferpool[i].pins = 0

\* The last transaction has just committed with a block pinned and a page modified
\* under its exclusive lock.
ReleaseAtEndWitness ==
    AllEnded /\ lastCommit.tx # 0 /\ lastCommit.pinned # {} /\ lastCommit.dirty # {}

\* What C10 promises of a pin that ended its wait: a buffer assigned to the block,
\* pinned once, and no BufferAbortError.
PinGranted ==
    /\ pinEvent.buff # NoBuff
    /\ bufferpool[pinEvent.buff].blk = pinEvent.blk
    /\ bufferpool[pinEvent.buff].pins = 1

\* C10 as stated -- a thread waiting in BufferMgr.pin(blk) for a block that is not
\* resident, woken by an unpin that took a buffer to pin count 0, gets a buffer
\* assigned to blk with pin count 1 and no BufferAbortError.
PinWaitSucceedsAsStated == (pinEvent.tx # 0 /\ pinEvent.notified) => PinGranted

\* C10 -- Pin wait succeeds, amended: the same, provided that a buffer is still
\* unpinned and blk is still not resident when the woken thread runs _try_to_pin.
PinWaitSucceeds ==
    (pinEvent.tx # 0 /\ pinEvent.notified /\ pinEvent.free) => PinGranted

\* A pin that waited, was woken by an unpin and found the buffer still free, returns.
PinWaitSucceedsWitness ==
    pinEvent.tx # 0 /\ pinEvent.notified /\ pinEvent.free /\ PinGranted

\* The pin counts, the block assignments and _num_available are left as they are.
PoolKept ==
    /\ numAvailable' = numAvailable
    /\ \A i \in DOMAIN bufferpool :
          /\ bufferpool'[i].pins = bufferpool[i].pins
          /\ bufferpool'[i].blk = bufferpool[i].blk

\* C11 -- Pin timeout: a BufferMgr.pin(blk) that has to wait (every buffer pinned,
\* blk not resident) changes nothing of the pool when it starts to wait; if no unpin
\* takes a buffer to pin count 0 while it waits, the wait ends with BufferAbortError,
\* and that step too leaves the pin counts, the block assignments and
\* _num_available as they were.
PinTimeoutFails ==
    [][\A t \in DOMAIN pc :
          /\ (pc[t] = "idle" /\ pc'[t] = "pin") => PoolKept
          /\ (pc[t] = "pin" /\ pc'[t] = "idle" /\ sys' = "up" /\ t \notin notified) =>
                 /\ pinEvent'.tx = t
                 /\ pinEvent'.buff = NoBuff
                 /\ PoolKept]_vars

\* A pin has ended with BufferAbortError and no unpin had woken it; every buffer is
\* pinned.
PinTimeoutFailsWitness ==
    /\ pinEvent.tx # 0 /\ ~pinEvent.notified /\ pinEvent.buff = NoBuff
    /\ \A i \in DOMAIN bufferpool : bufferpool[i].pins > 0
    /\ numAvailable = 0

\* C14 -- Recovery idempotence: a second recover() directly after the first changes
\* no data block on disk.
RecoveryIdempotence ==
    [][(sys = "recovered" /\ sys' = "recoveredTwice") => disk' = disk]_vars

\* recover() has run twice, and the first run had restored a value on disk.
RecoveryIdempotenceWitness ==
    /\ sys = "recoveredTwice"
    /\ crashed.disk # disk
    /\ \E k \in 1..Len(logrecs) : logrecs[k].op = "CHECKPOINT" /\ k < Len(logrecs)

\* C25 -- Flush leaves the buffer clean: after Buffer.flush() has written a dirty
\* buffer its modifying_tx is -1, so that a second flush() with no set_modified in
\* between finds the buffer clean (modifying_tx < 0) and flushes no log and writes
\* no page.
FlushLeavesClean == \A w \in pageWrites : w.left = -1 /\ ~(w.left >= 0)

\* C26 -- flush_all(txnum) writes exactly the buffers whose last modification was
\* made by transaction txnum and that have not been written since: it writes none
\* that another transaction modified last and none that is clean, however the
\* commits and rollbacks of the transactions interleave.
FlushAllExact == \A f \in flushAlls : f.wrote = f.due

\* C28 -- Strict two-phase locking: while a transaction is running (no commit() or
\* rollback() of it in the step, and the process does not die), every block it
\* has a lock on it still has a lock on after the step, an exclusive lock stays
\* exclusive, and the lock table still has the block locked: nothing is unlocked
\* before the end, whether the step is a pin, an unpin, a read, a write or a
\* step of another transaction.
StrictTwoPhase ==
    [][~(sys = "up" /\ sys' = "restarted") =>
          \A t \in DOMAIN txState, b \in LockBlocks :
              (txState[t] = "active" /\ txState'[t] = "active" /\ cmLocks[t][b] # "N") =>
                  /\ cmLocks'[t][b] # "N"
                  /\ cmLocks[t][b] = "X" => cmLocks'[t][b] = "X"
                  /\ locks'[b] # 0]_vars

\* A running transaction still holds the exclusive lock on a block that it has set
\* a value in and unpinned.
StrictTwoPhaseWitness ==
    \E t \in DOMAIN txState, b \in Blocks :
        /\ sys = "up" /\ txState[t] = "active"
        /\ cmLocks[t][b] = "X" /\ locks[b] = -1
        /\ blPins[t][b] = 0 /\ wrote[t] # {}

\* C29 -- Lock accounting: whatever slock, xlock and release calls the
\* ConcurrencyMgrs have made, those that ended with LockAbortError included, the
\* lock table has no entry for a block iff no manager records the block, has the
\* value V > 0 iff exactly V managers record it and none of them as "X", and has
\* -1 iff exactly one manager records it, as "X"; a block a manager locks again
\* is not counted again.
LockAccounting ==
    \A b \in LockBlocks :
        LET recording == Holders(b, {"S", "X"})
            exclusive == Holders(b, {"X"})
        IN /\ locks[b] >= -1
           /\ locks[b] = 0 <=> recording = {}
           /\ \A V \in 1..Cardinality(DOMAIN cmLocks) :
                 locks[b] = V <=> (Cardinality(recording) = V /\ exclusive = {})
           /\ locks[b] = -1 <=> (Cardinality(recording) = 1 /\ exclusive = recording)

\* Two managers record a block as "S" and the table has 2 for it; one of them has
\* it from a set whose xlock ended with LockAbortError (it has neither read nor
\* written the block and waits for nothing).
LockAccountingWitness ==
    \E t, u \in DOMAIN txState, b \in Blocks :
        /\ t # u /\ sys = "up"
        /\ cmLocks[t][b] = "S" /\ cmLocks[u][b] = "S" /\ locks[b] = 2
        /\ pc[t] = "idle" /\ t \notin readers[b] /\ t \notin writers[b]

\* C30 -- Pool accounting: whatever pins and unpins (of pinned buffers) have been
\* made, _num_available is the number of buffers whose pin count is 0, no pin count
\* is negative, and 0 <= _num_available <= the size of the pool.
PoolAccounting ==
    /\ numAvailable = Cardinality({i \in DOMAIN bufferpool : bufferpool[i].pins = 0})
    /\ \A i \in DOMAIN bufferpool : bufferpool[i].pins >= 0
    /\ 0 <= numAvailable /\ numAvailable <= Len(bufferpool)

\* A buffer is pinned twice, by both transactions, while a pin that had to wait has
\* ended; no buffer is available.
PoolAccountingWitness ==
    /\ sys = "up"
    /\ \E i \in DOMAIN bufferpool :
          /\ bufferpool[i].pins = 2
          /\ \A t \in DOMAIN blPins : blPins[t][bufferpool[i].blk] = 1
    /\ numAvailable = 0
    /\ pinEvent.tx # 0

\* ------------------------------------------------- pins and unpins on a larger pool
\* Two transactions pin and unpin the blocks of the file on a pool of PoolBuffs
\* buffers, and commit.
PoolInit == InitWith(Txns, PoolBuffs) /\ LogStart /\ StatStart /\ ScanStart({0})
            /\ ProdStart({EmptyTable})
            /\ FileStart
            /\ PageStart
            /\ CatStart
            /\ PredStart({<<>>}, {<<>>})
            /\ UndoStart({ZeroBytes(UndoBlockSize)})

PoolNext ==
    \/ Begin
    \/ \E t \in Txns, blk \in Blocks : Pin(t, blk)
    \/ \E t \in Txns, blk \in Blocks : Unpin(t, blk)
    \/ \E t \in Txns : Commit(t)

PoolSpec == PoolInit /\ [][PoolNext]_vars

\* C31 -- Pinned buffers stay: no step assigns a buffer whose pin count is greater
\* than 0 to another block, and no two buffers of the pool are assigned to the same
\* block, however the pins and unpins of the threads interleave.
PinnedStay ==
    [][/\ \A i \in DOMAIN bufferpool :
             bufferpool[i].pins > 0 => bufferpool'[i].blk = bufferpool[i].blk
       /\ \A i, j \in DOMAIN bufferpool :
             (i # j /\ bufferpool'[i].blk # NoBlock) =>
                 bufferpool'[i].blk # bufferpool'[j].blk]_vars

\* Both buffers are pinned, on different blocks, the first by both transactions,
\* and one transaction has pinned a block, unpinned it and pinned the other block.
PinnedStayWitness ==
    /\ \A i \in DOMAIN bufferpool : bufferpool[i].pins > 0
    /\ bufferpool[1].blk # bufferpool[2].blk
    /\ bufferpool[1].pins = 2
    /\ \E t \in DOMAIN nops, b \in Blocks :
          nops[t] = 3 /\ blPins[t][b] = 1 /\ \A c \in Blocks \ {b} : blPins[t][c] = 0

\* The page of block b as a pin of b finds it: the contents of the buffer that holds
\* b, or the block on disk.
BlockPage(b) ==
    LET i == FindExistingBuffer(Cur, b) IN
    IF i # NoBuff THEN bufferpool[i].contents ELSE disk[b]

\* C32 -- No lost write across eviction: a pin or unpin, whatever buffer it
\* evicts, leaves the page of every block as its last modification left it, and the
\* buffer a pin of a block returns holds that block with those contents.
NoLostWrite ==
    [][(sys = "up" /\ sys' = "up" /\ txState' = txState /\ blPins' # blPins) =>
          /\ \A b \in Blocks : BlockPage(b)' = BlockPage(b)
          /\ \A t \in DOMAIN blPins, b \in Blocks :
                blPins'[t][b] > blPins[t][b] =>
                    /\ bufferpool'[blBuffers'[t][b]].blk = b
                    /\ bufferpool'[blBuffers'[t][b]].contents = BlockPage(b)]_vars

\* A transaction has set a value in a block and unpinned it; the other has pinned
\* the other block, which wrote the page out, and then this block again, and finds
\* the value; nobody has committed.
NoLostWriteWitness ==
    \E t, u \in DOMAIN txState, b \in Blocks, i \in DOMAIN bufferpool :
        /\ t # u /\ sys = "up" /\ txState[t] = "active" /\ txState[u] = "active"
        /\ \E loc \in wrote[t] : loc[1] = b
        /\ blPins[t][b] = 0 /\ blPins[u][b] = 1 /\ nops[u] = 3
        /\ bufferpool[i].blk = b /\ bufferpool[i].contents # ZeroPage
        /\ disk[b] = bufferpool[i].contents

\* The START record of transaction t that is newest in the log, and the set records
\* of t after it at a location, as positions of the log.
NewestStart(log, t) ==
    LET S == {k \in 1..Len(log) : log[k].op = "START" /\ log[k].tx = t}
    IN IF S = {} THEN 0 ELSE CHOOSE k \in S : \A j \in S : j <= k

FrameRecsAt(log, t, loc) == {k \in SetRecsAt(log, t, loc) : k > NewestStart(log, t)}

\* C34 -- Rollback frame: rollback() of a transaction undoes the set records that
\* carry its number and are newer than its START record, and no other: a location
\* with such a record gets the value of the oldest of them, and every location the
\* transaction did not write with a logged set keeps its value, the uncommitted
\* writes of other transactions included.
RollbackFrame ==
    [][\A t \in DOMAIN txState :
          (txState[t] = "active" /\ txState'[t] = "rolledback") =>
              \A loc \in Locs :
                  LET R == FrameRecsAt(logrecs, t, loc)
                  IN IF R = {} THEN LocVal(Cur, loc)' = LocVal(Cur, loc)
                     ELSE LocVal(Cur, loc)' = logrecs[CHOOSE k \in R : \A j \in R : k <= j].val]_vars

\* A transaction with a logged write has been rolled back while the logged write of
\* another transaction, still active, is in place at another location.
RollbackFrameWitness ==
    \E t \in DOMAIN txState, u \in DOMAIN txState, k \in 1..Len(logrecs), j \in 1..Len(logrecs) :
        /\ t # u
        /\ txState[t] = "rolledback" /\ txState[u] = "active"
        /\ logrecs[Len(logrecs)] = RollbackRec(t)
        /\ logrecs[k].tx = t /\ logrecs[k].op \in {"SETINT", "SETSTRING"}
        /\ logrecs[j].tx = u /\ logrecs[j].op \in {"SETINT", "SETSTRING"}
        /\ LocVal(Cur, <<logrecs[j].blk, logrecs[j].off>>) # logrecs[j].val
        /\ LocVal(Cur, <<logrecs[k].blk, logrecs[k].off>>) = logrecs[k].val

\* The records of transaction t in the log, as positions.
RecsOf(log, t) == {k \in 1..Len(log) : log[k].tx = t}

\* C35 -- Log shape: the first record of every transaction in the log is its START
\* record; a SETINT or SETSTRING record is appended by the step that writes the page
\* and carries the value the location held before that step, and the buffer gets the
\* record's lsn; the COMMIT or ROLLBACK record of a transaction comes after all its
\* set records.
LogShape ==
    [][/\ \A t \in DOMAIN txState :
             LET R == RecsOf(logrecs', t) IN
             /\ R # {} => logrecs'[CHOOSE k \in R : \A j \in R : k <= j].op = "START"
             /\ \A k \in R : logrecs'[k].op \in {"COMMIT", "ROLLBACK"}
                               => \A j \in R : j <= k
        /\ (sys = "up" /\ sys' = "up" /\ Len(logrecs') > Len(logrecs)
              /\ logrecs'[Len(logrecs')].op \in {"SETINT", "SETSTRING"})
           => LET rec == logrecs'[Len(logrecs')]
                  i == blBuffers[rec.tx][rec.blk]
              IN /\ Len(logrecs') = Len(logrecs) + 1
                 /\ txState[rec.tx] = "active"
                 /\ rec.val = LocVal(Cur, <<rec.blk, rec.off>>)
                 /\ i # NoBuff
                 /\ bufferpool'[i].blk = rec.blk
                 /\ bufferpool'[i].lsn = latestLsn'
                 /\ bufferpool'[i].txnum = rec.tx]_vars

\* A committed transaction logged two writes of one location: the second record
\* carries the value the first write left, and the COMMIT record is the last.
LogShapeWitness ==
    \E t \in DOMAIN txState, i \in 1..Len(logrecs), j \in 1..Len(logrecs) :
        /\ i < j
        /\ logrecs[i].tx = t /\ logrecs[j].tx = t
        /\ logrecs[i].op = logrecs[j].op /\ logrecs[i].op \in {"SETINT", "SETSTRING"}
        /\ logrecs[i].blk = logrecs[j].blk
        /\ logrecs[i].val # logrecs[j].val
        /\ logrecs[Len(logrecs)] = CommitRec(t)

\* The records of a log page from position pos to its end, first to last, each with
\* its position; a length that runs past the end of the page ends the walk at -1.
RECURSIVE PageRecsFrom(_, _)
PageRecsFrom(page, pos) ==
    IF pos >= Len(page) THEN <<>>
    ELSE LET n == PageGetInt(page, pos)
         IN IF n < 0 \/ pos + 4 + n > Len(page) THEN <<[pos |-> -1, rec |-> <<>>]>>
            ELSE <<[pos |-> pos, rec |-> PageGetBytes(page, pos)]>>
                 \o PageRecsFrom(page, pos + 4 + n)

\* The last n records appended, newest first.
NewestAppended(ret, n) == [k \in 1..n |-> ret[Len(ret) + 1 - k].rec]

\* The boundary of a log page is inside the page, and the records from the boundary
\* on fill the page to its last byte.
BoundaryOK(page) ==
    LET b == PageGetInt(page, 0)
        recs == PageRecsFrom(page, b)
    IN /\ 4 <= b /\ b <= LogBlockSize
       /\ \A k \in DOMAIN recs : recs[k].pos >= 4
       /\ \A k \in DOMAIN recs :
             recs[k].pos + 4 + Len(recs[k].rec)
                = IF k = Len(recs) THEN LogBlockSize ELSE recs[k + 1].pos

\* C36 -- Log page boundary: after every append the boundary at bytes [0..4) of the
\* log page is the offset of the record appended last to that page (block_size for a
\* page without records), 4 <= boundary <= block_size, the records of the page lie
\* one after the other from the boundary to the end of the page and are the records
\* appended last, newest first; an append whose record does not fit writes the page
\* to its block, appends a block and places the record as the only one of the new
\* page, and an append whose record fits leaves the file as it is.
LogPageBoundary ==
    [][(lmLock.holder # 0 /\ lmLock'.holder = 0) =>
          LET rec == lmLock.rec
              b == PageGetInt(lm.logpage, 0)
              b1 == PageGetInt(lm'.logpage, 0)
              recs == PageRecsFrom(lm'.logpage, b1)
          IN /\ BoundaryOK(lm'.logpage)
             /\ recs # <<>> /\ recs[1].pos = b1 /\ recs[1].rec = rec
             /\ [k \in DOMAIN recs |-> recs[k].rec] = NewestAppended(returned', Len(recs))
             /\ \A k \in DOMAIN lm'.file : k # lm'.currentblk + 1 => BoundaryOK(lm'.file[k])
             /\ IF b - (Len(rec) + 4) < 4
                THEN /\ Len(lm'.file) = Len(lm.file) + 1
                     /\ lm'.currentblk = lm.currentblk + 1
                     /\ lm'.file[lm.currentblk + 1] = lm.logpage
                     /\ \A k \in 1..lm.currentblk : lm'.file[k] = lm.file[k]
                     /\ PageGetInt(lm'.file[lm'.currentblk + 1], 0) = LogBlockSize
                     /\ b1 = LogBlockSize - (Len(rec) + 4)
                     /\ Len(recs) = 1
                ELSE /\ lm'.file = lm.file /\ lm'.currentblk = lm.currentblk
                     /\ b1 = b - (Len(rec) + 4)]_vars

\* A record has been placed so that the page is full to its boundary field, and the
\* next one has gone to a block of its own after the full page was written.
LogPageBoundaryWitness ==
    /\ Len(lm.file) >= 2
    /\ PageGetInt(lm.file[lm.currentblk], 0) = 4
    /\ Len(PageRecsFrom(lm.file[lm.currentblk], 4)) >= 2
    /\ Len(PageRecsFrom(lm.logpage, PageGetInt(lm.logpage, 0))) = 1
    /\ lm.file[lm.currentblk + 1] # lm.logpage

\* ------------------------------------------------- the buffer list of a transaction
\* Transactions that pin and unpin the blocks of the file, pinned or not, and commit.
ListCall(t) == Active(t) /\ nops[t] < MaxListOps

ListPin(t, blk) == ListCall(t) /\ PinCall(t, blk)

ListUnpin(t, blk) == ListCall(t) /\ UnpinCall(t, blk)

ListNext ==
    \/ Begin
    \/ \E t \in Txns, blk \in Blocks : ListPin(t, blk)
    \/ \E t \in Txns : PinRetry(t)
    \/ \E t \in Txns : PinTimeout(t)
    \/ \E t \in Txns, blk \in Blocks : ListUnpin(t, blk)
    \/ \E t \in Txns : Commit(t)

ListSpec == Init /\ [][ListNext]_vars

\* C37 -- BufferList multiplicity: a block is in the buffer list of a transaction as
\* long as the transaction has more pins than unpins of it, and its buffer then holds
\* the block with a pin count of at least that difference; an unpin that leaves pins
\* keeps the block and its buffer in the list, the unpin that takes the last removes
\* it; unpin of a block that is not in the list raises RuntimeError and changes no
\* pin count, no list and no buffer.
BufferListMultiplicity ==
    [][/\ \A t \in DOMAIN blPins, blk \in Blocks :
             /\ (blBuffers'[t][blk] # NoBuff) <=> (blPins'[t][blk] > 0)
             /\ blBuffers'[t][blk] # NoBuff =>
                   /\ bufferpool'[blBuffers'[t][blk]].blk = blk
                   /\ bufferpool'[blBuffers'[t][blk]].pins >= blPins'[t][blk]
             /\ (txState[t] = "active" /\ txState'[t] = "active"
                   /\ blPins'[t][blk] = blPins[t][blk] - 1) =>
                   IF blPins[t][blk] > 1
                   THEN /\ blBuffers'[t][blk] = blBuffers[t][blk]
                        /\ bufferpool'[blBuffers[t][blk]].pins
                             = bufferpool[blBuffers[t][blk]].pins - 1
                   ELSE blBuffers'[t][blk] = NoBuff
             /\ (nops'[t] = nops[t] + 1 /\ blBuffers[t][blk] = NoBuff
                   /\ blPins' = blPins /\ pc' = pc) => unpinErrors' # {}
       /\ \A e \in unpinErrors' :
             /\ blBuffers[e.tx][e.blk] = NoBuff
             /\ blPins' = blPins /\ blBuffers' = blBuffers
             /\ bufferpool' = bufferpool /\ numAvailable' = numAvailable]_vars

\* A transaction holds two pins of a block, and its unpin of the other block, which
\* it has not pinned, has raised.
BufferListMultiplicityWitness ==
    \E t \in DOMAIN blPins, blk \in Blocks, e \in unpinErrors :
        /\ e.tx = t /\ e.blk # blk
        /\ blPins[t][blk] = 2
        /\ bufferpool[blBuffers[t][blk]].pins = 2

\* A transaction has unpinned once a block it had pinned twice, and nothing else.
UnpinnedOnceOfTwice ==
    \E t \in DOMAIN blPins, blk \in Blocks :
        /\ nops[t] = 3 /\ blPins[t][blk] = 1 /\ unpinErrors = {}
        /\ \A u \in DOMAIN txState : u # t => txState[u] = "none"
        /\ bufferpool[blBuffers[t][blk]].pins = 1
        /\ numAvailable = 0

\* ------------------------------------------------- the pins of a table scan
\* A scan of a transaction that never waits for a buffer: insert, next, before_first,
\* move_to_rid to a slot of the file, and close.  insert is not called when it would
\* grow the file past MaxScanBlocks.
PinInsert ==
    /\ scanPc = "idle"
    /\ FmLength(TsInsert(scan).file) <= MaxScanBlocks
    /\ scan' = TsInsert(scan)
    /\ scanH' = [scanH EXCEPT !.op = "insert"]
    /\ UNCHANGED scanPc
    /\ UNCHANGED notScan

PinScanNext ==
    /\ scanPc = "idle"
    /\ scan' = TsNext(scan)
    /\ scanH' = [scanH EXCEPT !.op = "next"]
    /\ UNCHANGED scanPc
    /\ UNCHANGED notScan

PinBeforeFirst ==
    /\ scanPc = "idle"
    /\ scan' = TsBeforeFirst(scan)
    /\ scanH' = [scanH EXCEPT !.op = "before_first"]
    /\ UNCHANGED scanPc
    /\ UNCHANGED notScan

PinDelete ==
    /\ scanPc = "idle"
    /\ scan.slot >= 0
    /\ scan' = TsDelete(scan)
    /\ scanH' = [scanH EXCEPT !.op = "delete"]
    /\ UNCHANGED scanPc
    /\ UNCHANGED notScan

MoveToRid(blknum, slot) ==
    /\ scanPc = "idle"
    /\ blknum < FmLength(scan.file)
    /\ IsValidSlot(scan, slot)
    /\ scan' = TsMoveToRid(scan, blknum, slot)
    /\ scanH' = [scanH EXCEPT !.op = "move_to_rid"]
    /\ UNCHANGED scanPc
    /\ UNCHANGED notScan

Close ==
    /\ scanPc = "idle"
    /\ scan' = TsClose(scan)
    /\ scanPc' = "closed"
    /\ scanH' = [scanH EXCEPT !.op = "close"]
    /\ UNCHANGED notScan

PinNext ==
    \/ PinInsert
    \/ PinScanNext
    \/ PinBeforeFirst
    \/ PinDelete
    \/ \E blknum \in 0..(MaxScanBlocks - 1), slot \in 0..(SlotsPerBlock(0) - 1) :
          MoveToRid(blknum, slot)
    \/ Close

PinInit == InitWith(Txns, NumBuffs) /\ LogStart /\ StatStart /\ ScanStart({0, 1})
            /\ ProdStart({EmptyTable})
            /\ FileStart
            /\ PageStart
            /\ CatStart
            /\ PredStart({<<>>}, {<<>>})
            /\ UndoStart({ZeroBytes(UndoBlockSize)})

PinSpec == PinInit /\ [][PinNext]_vars

\* C38 -- Scan pin balance: from its construction to close(), through insert, next,
\* before_first and move_to_rid, a TableScan holds one pin, on the block of its
\* current RecordPage, and at no moment of a call more than one (the block it leaves
\* is unpinned before the next is pinned); after close() it holds none; no unpin of
\* the scan finds its block not pinned.
ScanPinBalance ==
    /\ ~scan.raised
    /\ scan.peak <= 1
    /\ scanPc # "closed" => scan.rp /\ scan.pins = <<scan.blk>>
    /\ scanPc = "closed" => scan.pins = <<>>

\* A scan that had moved to the second block of its file, and back to a record of
\* the first, has been closed.
ScanPinBalanceWitness ==
    /\ scanPc = "closed"
    /\ FmLength(scan.file) = 2
    /\ scan.blk = 0 /\ scan.slot = 0
    /\ FlagOf(scan.file, scan.nf, 1, 0) = USED
    /\ scan.pins = <<>>

\* ------------------------------------------------- a record page on its own
\* The methods of RecordPage on the first block of a table file, called with any slot
\* number: insert_after, next_after, delete, set_int / set_string and format.  The
\* layouts: no field, one INTEGER field, one VARCHAR(1) field, and three INTEGER fields,
\* whose slot is larger than the block.
RpLayouts == {[nf |-> 0, skip |-> {}], [nf |-> 1, skip |-> {}], [nf |-> 2, skip |-> {2}],
              [nf |-> 3, skip |-> {}]}

RpSlots == 0..(SlotsPerBlock(0) - 1)

\* The flag of a slot of the record page, and the valid slots after slot with a flag.
RpFlag(m, slot) == PageGetInt(m.file[m.blk + 1], Offset(m, slot))

SlotsAfter(m, slot, flag) ==
    {k \in RpSlots : k > slot /\ IsValidSlot(m, k) /\ RpFlag(m, k) = flag}

Least(S) == IF S = {} THEN -1 ELSE CHOOSE k \in S : \A j \in S : k <= j

\* What the calls so far have done: the last call and its slot, the slots that
\* delete has emptied and no insert_after has returned since, and the slots that
\* insert_after has returned after a delete had emptied them.
RpNote(op, slot, gone, back) == [op |-> op, slot |-> slot, gone |-> gone, back |-> back]

InsertAfter(slot) ==
    /\ scan' = RpInsertAfter(scan, slot)
    /\ scanH' = RpNote("insert_after", slot, scanH.gone \ {scan'.found},
                        scanH.back \cup (scanH.gone \cap {scan'.found}))
    /\ UNCHANGED scanPc
    /\ UNCHANGED notScan

NextAfter(slot) ==
    /\ scan' = RpNextAfter(scan, slot)
    /\ scanH' = RpNote("next_after", slot, scanH.gone, scanH.back)
    /\ UNCHANGED scanPc
    /\ UNCHANGED notScan

RpDeleteSlot(slot) ==
    /\ IsValidSlot(scan, slot)
    /\ scan' = RpDelete(scan, slot)
    /\ scanH' = RpNote("delete", slot, scanH.gone \cup {slot}, scanH.back \ {slot})
    /\ UNCHANGED scanPc
    /\ UNCHANGED notScan

\* set_int of an INTEGER field or set_string of a VARCHAR field
RpSetField(slot, f) ==
    /\ IsValidSlot(scan, slot)
    /\ f <= scan.nf /\ f \notin scan.skip
    /\ scan' = IF f + 1 \in scan.skip THEN RpSetString(scan, slot, f, <<97>>)
               ELSE RpSetInt(scan, slot, f, 7)
    /\ scanH' = RpNote("set", slot, scanH.gone, scanH.back)
    /\ UNCHANGED scanPc
    /\ UNCHANGED notScan

Format ==
    /\ scan' = RpFormat(scan)
    /\ scanH' = RpNote("format", 0, scanH.gone, scanH.back)
    /\ UNCHANGED scanPc
    /\ UNCHANGED notScan

RpNext ==
    \/ \E slot \in -1..SlotsPerBlock(0) : InsertAfter(slot)
    \/ \E slot \in -1..SlotsPerBlock(0) : NextAfter(slot)
    \/ \E slot \in RpSlots : RpDeleteSlot(slot)
    \/ \E slot \in RpSlots, f \in 1..MaxFields : RpSetField(slot, f)
    \/ Format

\* A RecordPage on a block that was appended and formatted.
RpStart ==
    /\ scan \in {[NewTableScan(<<>>, l.nf) EXCEPT !.skip = l.skip] : l \in RpLayouts}
    /\ scanPc = "idle"
    /\ scanH = RpNote("new", 0, {}, {})

RpInit == InitWith(Txns, NumBuffs) /\ LogStart /\ StatStart /\ RpStart
            /\ ProdStart({EmptyTable})
            /\ FileStart
            /\ PageStart
            /\ CatStart
            /\ PredStart({<<>>}, {<<>>})
            /\ UndoStart({ZeroBytes(UndoBlockSize)})

RpSpec == RpInit /\ [][RpNext]_vars

\* C39 -- Slot search: insert_after(slot) returns the least valid slot after slot
\* whose flag is EMPTY and sets that flag to USED with one logged set_int, or returns
\* -1 and writes nothing; next_after(slot) returns the least valid slot after slot
\* whose flag is USED, or -1, and writes nothing; next_after does not return a slot
\* that delete has emptied and no insert_after has returned since.
SlotSearch ==
    [][/\ scanH'.op = "insert_after" =>
             LET k == Least(SlotsAfter(scan, scanH'.slot, EMPTY))
             IN /\ scan'.found = k
                /\ IF k >= 0
                   THEN /\ scan'.file =
                             [scan.file EXCEPT ![scan.blk + 1] = PageSetInt(@, Offset(scan, k), USED)]
                        /\ RpFlag(scan', k) = USED
                        /\ scan'.sets = <<[off |-> Offset(scan, k), val |-> USED, log |-> TRUE]>>
                   ELSE scan'.file = scan.file /\ scan'.sets = <<>>
       /\ scanH'.op = "next_after" =>
             /\ scan'.found = Least(SlotsAfter(scan, scanH'.slot, USED))
             /\ scan'.found \notin scanH.gone
             /\ scan'.file = scan.file /\ scan'.sets = <<>>
       /\ scanH'.op = "delete" =>
             /\ RpFlag(scan', scanH'.slot) = EMPTY
             /\ scan'.sets = <<[off |-> Offset(scan, scanH'.slot), val |-> EMPTY, log |-> TRUE]>>]_vars

\* next_after(-1) has passed a slot that delete had emptied and returned a slot that
\* insert_after had returned after a delete.
SlotSearchWitness ==
    /\ scanH.op = "next_after"
    /\ scanH.slot = -1
    /\ scanH.gone = {0}
    /\ scan.found = 1
    /\ scan.found \in scanH.back

\* The set calls of a RecordPage call that appended a record to the log.
LoggedSets(m) == {k \in DOMAIN m.sets : m.sets[k].log}

\* The claim of C40 as it is stated: format() logs nothing, empties every valid slot
\* and marks the buffer as modified, whatever the layout.
FormatAsStated ==
    scanH.op = "format" =>
        /\ LoggedSets(scan) = {}
        /\ \A k \in RpSlots : IsValidSlot(scan, k) =>
              /\ RpFlag(scan, k) = EMPTY
              /\ \A f \in 1..scan.nf : f \notin scan.skip =>
                    IF f + 1 \in scan.skip
                    THEN PageGetString(scan.file[scan.blk + 1], Offset(scan, k) + LayoutOffset(f)) = <<>>
                    ELSE PageGetInt(scan.file[scan.blk + 1], Offset(scan, k) + LayoutOffset(f)) = 0
        /\ scan.sets # <<>>

\* C40 -- RecordPage.format() appends no record to the log (none of its set calls is
\* logged), leaves the flag of every valid slot EMPTY and every field 0 or the empty
\* string, and, when the block has a valid slot, marks the buffer as modified by the
\* calling transaction (it makes a set call, each of which calls set_modified).
FormatUnlogged ==
    scanH.op = "format" =>
        /\ LoggedSets(scan) = {}
        /\ \A k \in RpSlots : IsValidSlot(scan, k) =>
              /\ RpFlag(scan, k) = EMPTY
              /\ \A f \in 1..scan.nf : f \notin scan.skip =>
                    IF f + 1 \in scan.skip
                    THEN PageGetString(scan.file[scan.blk + 1], Offset(scan, k) + LayoutOffset(f)) = <<>>
                    ELSE PageGetInt(scan.file[scan.blk + 1], Offset(scan, k) + LayoutOffset(f)) = 0
        /\ IsValidSlot(scan, 0) => scan.sets # <<>>
        /\ ~IsValidSlot(scan, 0) => scan.sets = <<>>

\* A page with a string in its VARCHAR field has been formatted with two unlogged
\* sets: the characters of the string are still in the page, the string read is empty.
FormatUnloggedWitness ==
    /\ scanH.op = "format"
    /\ scan.skip # {}
    /\ scan.file[scan.blk + 1] # ZeroBytes(ScanBlockSize)
    /\ Len(scan.sets) = 2

\* ------------------------------------------------- the undo of logged writes
\* Transaction.set_int(blk, offset, val, True): RecoveryMgr.set_int appends the
\* record with the value the page holds, then the page is written.
UndoSetInt(offset, val) ==
    /\ ub.st = "active"
    /\ Len(ub.log) < MaxUndoSets
    /\ ub' = [ub EXCEPT
                !.log = Append(@, SetIntBytes(UndoTx, UndoFile, 0, offset,
                                              PageGetInt(ub.page, offset))),
                !.page = PageSetInt(@, offset, val),
                !.last = "set_int"]
    /\ UNCHANGED notUndo

\* Transaction.set_string(blk, offset, val, True) with a string that fits the block;
\* get_string of the old value raises on bytes that are not UTF-8.
UndoSetString(offset, val) ==
    /\ ub.st = "active"
    /\ Len(ub.log) < MaxUndoSets
    /\ offset + 4 + Len(Encode(val)) <= UndoBlockSize
    /\ \A i \in DOMAIN PageGetString(ub.page, offset) : PageGetString(ub.page, offset)[i] >= 0
    /\ ub' = [ub EXCEPT
                !.log = Append(@, SetStringBytes(UndoTx, UndoFile, 0, offset,
                                                 PageGetString(ub.page, offset))),
                !.page = PageSetString(@, offset, val),
                !.grew = @ \/ Len(Encode(val)) > Len(PageGetBytes(ub.page, offset)),
                !.cut = @ \/ offset + 4 + PageGetInt(ub.page, offset) > UndoBlockSize,
                !.last = "set_string"]
    /\ UNCHANGED notUndo

\* Transaction.rollback: every record of the transaction is undone.
UndoRollback ==
    /\ ub.st = "active"
    /\ ub' = [ub EXCEPT !.page = DoRollbackBytes(@, ub.log), !.st = "rolledback",
                        !.last = "rollback"]
    /\ UNCHANGED notUndo

UndoNext ==
    \/ \E o \in UndoOffsets, v \in UndoInts : UndoSetInt(o, v)
    \/ \E o \in UndoOffsets, s \in UndoStrs : UndoSetString(o, s)
    \/ UndoRollback

UndoInit == InitWith(Txns, NumBuffs) /\ LogStart /\ StatStart /\ ScanStart({0})
            /\ ProdStart({EmptyTable})
            /\ FileStart
            /\ PageStart
            /\ CatStart
            /\ PredStart({<<>>}, {<<>>})
            /\ UndoStart(UndoPages)

UndoSpec == UndoInit /\ [][UndoNext]_vars

\* The claim of C33 as it is stated: after rollback the page has the bytes it had
\* before the first logged write, whatever the logged writes were.
UndoByteExactAsStated ==
    (ub.st = "rolledback" /\ ub.log # <<>>) => ub.page = ub.pre

\* C33 -- Byte-exact undo: after rollback() the whole byte contents of the block
\* equal the contents before the transaction's first logged write, provided every
\* logged set_string found at its offset a string that ends inside the block and wrote
\* one whose encoding is no longer.
UndoByteExact ==
    (ub.st = "rolledback" /\ ub.log # <<>> /\ ~ub.grew /\ ~ub.cut) => ub.page = ub.pre

\* A rollback of two logged writes to one offset, the first a set_string that wrote
\* a string shorter than the one it replaced.
UndoByteExactWitness ==
    /\ ub.st = "rolledback"
    /\ ~ub.grew /\ ~ub.cut
    /\ Len(ub.log) >= 2
    /\ SetRecord(ub.log[1]).offset = SetRecord(ub.log[2]).offset
    /\ SetRecord(ub.log[1]).op = SETSTRING
    /\ SetRecord(ub.log[1]).val = <<98, 99>>
    /\ SetRecord(ub.log[2]).op = SETSTRING
    /\ SetRecord(ub.log[2]).val = <<97>>
    /\ ub.page = ub.pre

\* A rollback after a logged set_string that wrote a longer string: the values read
\* at the offset are those of before, the bytes of the page are not.
UndoNotByteExact ==
    /\ ub.st = "rolledback"
    /\ ub.grew /\ ~ub.cut
    /\ Len(ub.log) = 1
    /\ PageGetString(ub.page, SetRecord(ub.log[1]).offset)
         = PageGetString(ub.pre, SetRecord(ub.log[1]).offset)
    /\ ub.page # ub.pre

\* ------------------------------------------- the run of ConcurrencyTest.test
\* Threads a, b and c are started 0.1 s apart and each begins with Transaction(),
\* so that they run transactions 1, 2 and 3, on a pool of TestBuffs buffers:
\*   a: pin 1, pin 2, get_int(blk1), get_int(blk2), commit
\*   b: pin 1, pin 2, set_int(blk2, unlogged), get_int(blk1), commit
\*   c: pin 1, pin 2, set_int(blk1, unlogged), get_int(blk2), commit
\* and each rolls back on LockAbortError.  nops[t] is the position of thread t.  The
\* test reads and writes offset 0 of the block; the model's integer location stands
\* for it.
NumThreads == 3
TestBuffs == 8
Threads == 1..NumThreads

TestInit == InitWith(Threads, TestBuffs) /\ LogStart /\ StatStart /\ ScanStart({0})
            /\ ProdStart({EmptyTable})
            /\ FileStart
            /\ PageStart
            /\ CatStart
            /\ PredStart({<<>>}, {<<>>})
            /\ UndoStart({ZeroBytes(UndoBlockSize)})

TestBegin == StartTx(NumThreads)

TestPin(t) == Active(t) /\ nops[t] < 2 /\ PinCall(t, nops[t] + 1)

TestFirst(t) ==
    /\ Active(t) /\ nops[t] = 2
    /\ IF t = 1 THEN GetCall(t, 1) ELSE SetCall(t, IF t = 2 THEN 2 ELSE 1, IntOff, 0, FALSE)

TestSecond(t) == Active(t) /\ nops[t] = 3 /\ GetCall(t, IF t = 2 THEN 1 ELSE 2)

TestCommit(t) == nops[t] = 4 /\ Commit(t)

\* LockAbortError takes the thread to its except clause.
TestAbort(t) == LockAbort(t, "aborted")

TestRollback(t) == pc[t] = "aborted" /\ RollbackCall(t)

\* The steps of thread t.
ThreadStep(t) ==
    \/ TestPin(t) \/ TestFirst(t) \/ TestSecond(t) \/ TestCommit(t)
    \/ SlockRetry(t) \/ XlockRetry(t) \/ TestAbort(t) \/ TestRollback(t)

TestNext ==
    \/ TestBegin
    \/ \E t \in Threads : TestPin(t)
    \/ \E t \in Threads : TestFirst(t)
    \/ \E t \in Threads : TestSecond(t)
    \/ \E t \in Threads : TestCommit(t)
    \/ \E t \in Threads : SlockRetry(t)
    \/ \E t \in Threads : XlockRetry(t)
    \/ \E t \in Threads : TestAbort(t)
    \/ \E t \in Threads : TestRollback(t)

\* Every thread is scheduled, and Condition.wait(MAX_TIME) returns after MAX_TIME at
\* the latest, so that a thread that can take a step (retry its lock request, or
\* give up when it still cannot have the lock) eventually takes one.
TestSpec ==
    /\ TestInit /\ [][TestNext]_vars
    /\ WF_vars(TestBegin)
    /\ \A t \in Threads : WF_vars(ThreadStep(t))

Waiting(t) == pc[t] \in {"slock", "xlock"}

\* C6 -- Deadlock resolution by timeout: in every interleaving of the three
\* transactions, a lock request that waits eventually returns (granted or with
\* LockAbortError), and every transaction eventually commits or rolls back.
DeadlockResolution ==
    /\ \A t \in Threads : Waiting(t) ~> ~Waiting(t)
    /\ \A t \in Threads : <>(txState[t] \in {"committed", "rolledback"})

\* All three have ended, b after LockAbortError on its request for blk1 while c,
\* which held blk1 exclusively, went through.
DeadlockResolutionWitness ==
    /\ \A t \in Threads : txState[t] \in {"committed", "rolledback"}
    /\ txState[2] = "rolledback" /\ pc[2] = "aborted"
    /\ txState[3] = "committed"

=============================================================================
